---- MODULE Spec2Model ----
(***************************************************************************)
(* A model of the project analysis engine of proteus: the stack detectors  *)
(* of src/src/detectors/types.ts (language, framework, test framework,     *)
(* package manager, monorepo, workspace scan, detectStack).                *)
(*                                                                         *)
(* A project directory is a finite tree: the root directory, its           *)
(* subdirectories and their subdirectories.  File contents are kept as the *)
(* facts the detectors read from them: the JSON values of the fields of a  *)
(* manifest, the substrings a text manifest contains, and the list a       *)
(* workspace file's block holds.  Strings the code takes apart (versions,  *)
(* workspace patterns, paths) are sequences of tokens.                     *)
(***************************************************************************)
EXTENDS Integers, Sequences, FiniteSets, TLC

\* pc: "ready" before the detector under study has run, "done" after.
\* project / stack: the directory tree given to detectStack and its outcome.
\* lctx / languages: the directory given to detectAllLanguages and its outcome.
\* mctx / monorepo: the directory given to detectMonorepo and its result.
\* samples / convention: the file paths given to detectNamingConvention and
\* the convention it returns.
\* scored / confidence: the stack and patterns given to calculateConfidence
\* and the scores it returns.
\* pmArgs / packageManager: the directory and language given to
\* detectPackageManager and its result.
\* sdir / structure: the directories under cwd, with the listing fast-glob
\* gives of them, and what detectDirectoryStructure returns.
\* agentFs / existing: the candidate agent and skill directories under cwd and
\* what detectExistingAgents returns.
\* claudeMd / parsed: the lines of a rules document (the content split at
\* '\n') and what parseClaudeMd extracts from it.
\* targs / cwdFiles: the options, prompt answers and environment of one run
\* of the transform command, and the files of the project directory.
\* cmdArgs / commands: the directory, language and package manager given to
\* detectCommands and the commands it returns.
\* fargs / frameworks: the directory and languages given to
\* detectAllFrameworks and its outcome.
\* scanArgs / scanned: the tree and patterns given to scanSubdirectories and
\* its outcome.
\* cproject / compat: a directory and what the single-stack and the
\* multi-stack detectStack return on it.
VARIABLES pc, project, stack, lctx, languages, mctx, monorepo,
          samples, convention, scored, confidence, claudeMd, parsed,
          agentFs, existing, sdir, structure, pmArgs, packageManager,
          targs, cwdFiles, cmdArgs, commands, fargs, frameworks,
          scanArgs, scanned, cproject, compat

vars == <<pc, project, stack, lctx, languages, mctx, monorepo,
          samples, convention, scored, confidence, claudeMd, parsed,
          agentFs, existing, sdir, structure, pmArgs, packageManager,
          targs, cwdFiles, cmdArgs, commands, fargs, frameworks,
          scanArgs, scanned, cproject, compat>>

(***************************************************************************)
(* JavaScript values, as far as the detectors look at them.                *)
(***************************************************************************)
Undefined == [t |-> "undefined", v |-> <<>>]

Null == [t |-> "null", v |-> <<>>]

Num == [t |-> "number", v |-> <<>>]

Obj == [t |-> "object", v |-> <<>>]

Str(s) == [t |-> "string", v |-> s]

Arr(s) == [t |-> "array", v |-> s]

\* x is null or undefined: what `?.` short-circuits on
IsNullish(x) == x.t \in {"undefined", "null"}

\* JavaScript truthiness (Num stands for a non-zero number such as 13)
Truthy(x) == x.t \in {"number", "object", "array"} \/ (x.t = "string" /\ x.v # <<>>)

\* s.replace(/[\^~]/, ''): the first '^' or '~' of s is removed, nothing else
ReplaceCaretTilde(s) ==
  LET hits == {i \in 1..Len(s) : s[i] \in {"^", "~"}}
  IN IF hits = {} THEN s
     ELSE LET i == CHOOSE j \in hits : \A k \in hits : j <= k
          IN SubSeq(s, 1, i - 1) \o SubSeq(s, i + 1, Len(s))

\* The outcome of a call: a value, or an exception that leaves the function
Ok(x) == [raised |-> FALSE, val |-> x]

Raised == [raised |-> TRUE, val |-> <<>>]

(***************************************************************************)
(* Directories.                                                            *)
(***************************************************************************)
LanguageMarkers ==
  {"tsconfig.json", "package.json", "go.mod", "pyproject.toml", "requirements.txt",
   "setup.py", "Cargo.toml", "Gemfile", "pom.xml", "build.gradle", "build.gradle.kts",
   "composer.json"}

TextFiles == {"go.mod", "requirements.txt", "pyproject.toml", "Gemfile", "Cargo.toml"}

\* the keys of package.json's dependency maps that the detectors look up
DepKeys ==
  {"next", "react", "vue", "@angular/core", "svelte", "@nestjs/core", "express",
   "fastify", "typescript", "vitest", "jest", "mocha", "tailwindcss",
   "styled-components", "@emotion/react", "prisma", "@prisma/client", "drizzle",
   "drizzle-orm", "zustand", "@reduxjs/toolkit", "redux", "jotai", "recoil",
   "@tanstack/react-query", "swr", "axios", "zod", "yup", "eslint", "prettier",
   "biome", "@remix-run/react"}

\* a dependency map is a function on the keys it holds
NoDeps == [k \in {} |-> Undefined]

\* package.json as parsed: ok = FALSE is a file JSON.parse rejects
EmptyPkg ==
  [ok |-> TRUE, dependencies |-> NoDeps, devDependencies |-> NoDeps,
   workspaces |-> Undefined, wsPackages |-> Undefined, name |-> Undefined]

EmptyLerna == [ok |-> TRUE, packages |-> Undefined]

\* A directory: its regular files (files), the parsed package.json and
\* lerna.json, for each text manifest the set of substrings of interest it
\* contains, and the lists held by pnpm-workspace.yaml's packages block,
\* go.work's use block and Cargo.toml's members array.
EmptyDir ==
  [files |-> {}, pkg |-> EmptyPkg, lerna |-> EmptyLerna,
   text |-> [f \in TextFiles |-> {}],
   pnpm |-> <<>>, gowork |-> <<>>, members |-> <<>>]

\* createContext(cwd).hasFile
HasFile(ctx, name) == name \in ctx.files

\* createContext(cwd).readJson: the parsed value, null for a missing or
\* unparseable file
\* a plausible slip: the parse failure is not caught, the text is used as read
ReadJsonPkg_Lenient(ctx) == IF "package.json" \in ctx.files THEN ctx.pkg ELSE Null

ReadJsonPkg(ctx) ==
  IF "package.json" \in ctx.files /\ ctx.pkg.ok THEN ctx.pkg ELSE Null

ReadJsonLerna(ctx) ==
  IF "lerna.json" \in ctx.files /\ ctx.lerna.ok THEN ctx.lerna ELSE Null

\* createContext(cwd).readFile succeeded
Readable(ctx, name) == name \in ctx.files

\* content?.includes(sub) for a text manifest
Includes(ctx, name, sub) == Readable(ctx, name) /\ sub \in ctx.text[name]

\* pkg?.<map>?.[key]
Dep(pkg, map, key) ==
  IF pkg = Null THEN Undefined
  ELSE IF map = "dependencies"
  THEN (IF key \in DOMAIN pkg.dependencies THEN pkg.dependencies[key] ELSE Undefined)
  ELSE (IF key \in DOMAIN pkg.devDependencies THEN pkg.devDependencies[key] ELSE Undefined)

\* { ...pkg?.dependencies, ...pkg?.devDependencies }: the later spread wins
MergedDeps(pkg) ==
  [k \in DepKeys |->
     IF Dep(pkg, "devDependencies", k) # Undefined
     THEN Dep(pkg, "devDependencies", k)
     ELSE Dep(pkg, "dependencies", k)]

(***************************************************************************)
(* Language detection                                                      *)
(***************************************************************************)
LanguageInfo(l, ver) == [language |-> l, version |-> ver]

PushIf(cond, entry) == IF cond THEN <<entry>> ELSE <<>>

\* a plausible slip: `if` for `else if`, so package.json adds 'javascript'
\* even beside tsconfig.json
JsFamilyEntry_NoElse(ctx) ==
  LET ts == Dep(ReadJsonPkg(ctx), "devDependencies", "typescript")
  IN PushIf(HasFile(ctx, "tsconfig.json"),
            [language |-> "typescript",
             version |-> IF ts.t = "string" THEN Str(ReplaceCaretTilde(ts.v))
                         ELSE Undefined])
     \o PushIf(HasFile(ctx, "package.json"),
               [language |-> "javascript", version |-> Undefined])

\* the typescript / javascript branch of detectAllLanguages
JsFamilyEntry(ctx) ==
  LET ts == Dep(ReadJsonPkg(ctx), "devDependencies", "typescript")
  IN IF HasFile(ctx, "tsconfig.json")
     THEN <<LanguageInfo("typescript",
              IF ts.t = "string" THEN Str(ReplaceCaretTilde(ts.v)) ELSE Undefined)>>
     ELSE IF HasFile(ctx, "package.json")
     THEN <<LanguageInfo("javascript", Undefined)>>
     ELSE <<>>

\* typescript?.replace(...) on a value that is neither nullish nor a string
LanguagesThrows(ctx) ==
  LET ts == Dep(ReadJsonPkg(ctx), "devDependencies", "typescript")
  IN HasFile(ctx, "tsconfig.json") /\ ~IsNullish(ts) /\ ts.t # "string"

DetectedLanguages(ctx) ==
  JsFamilyEntry(ctx)
  \o PushIf(HasFile(ctx, "go.mod"),
            LanguageInfo("go", IF Includes(ctx, "go.mod", "go 1.21")
                               THEN Str(<<"1", ".", "21">>) ELSE Undefined))
  \o PushIf(HasFile(ctx, "pyproject.toml") \/ HasFile(ctx, "requirements.txt")
              \/ HasFile(ctx, "setup.py"),
            LanguageInfo("python", Undefined))
  \o PushIf(HasFile(ctx, "Cargo.toml"), LanguageInfo("rust", Undefined))
  \o PushIf(HasFile(ctx, "Gemfile"), LanguageInfo("ruby", Undefined))
  \o PushIf(HasFile(ctx, "pom.xml") \/ HasFile(ctx, "build.gradle")
              \/ HasFile(ctx, "build.gradle.kts"),
            LanguageInfo("java", Undefined))
  \o PushIf(HasFile(ctx, "composer.json"), LanguageInfo("php", Undefined))

\* a plausible slip: the fallback entry is forgotten
detectAllLanguages_NoFallback(ctx) ==
  IF LanguagesThrows(ctx) THEN Raised ELSE Ok(DetectedLanguages(ctx))

detectAllLanguages(ctx) ==
  IF LanguagesThrows(ctx) THEN Raised
  ELSE Ok(IF Len(DetectedLanguages(ctx)) > 0
          THEN DetectedLanguages(ctx)
          ELSE <<LanguageInfo("unknown", Undefined)>>)

(***************************************************************************)
(* Framework detection                                                     *)
(***************************************************************************)
FrameworkInfo(f, ver, l) == [framework |-> f, version |-> ver, language |-> l]

\* the package.json rows of detectAllFrameworks, in the order of the code
JsFrameworkTable ==
  << <<"next", "nextjs">>, <<"react", "react">>, <<"vue", "vue">>,
     <<"@angular/core", "angular">>, <<"svelte", "svelte">>,
     <<"@nestjs/core", "nestjs">>, <<"express", "express">>,
     <<"fastify", "fastify">> >>

\* a plausible slip: react is reported beside next
JsRowMatches_ReactBesideNext(deps, i) == Truthy(deps[JsFrameworkTable[i][1]])

\* the condition of row i: the dependency is truthy (react: and next is not)
JsRowMatches(deps, i) ==
  /\ Truthy(deps[JsFrameworkTable[i][1]])
  /\ (JsFrameworkTable[i][1] = "react" => ~Truthy(deps["next"]))

HasLanguage(langs, l) == \E i \in 1..Len(langs) : langs[i].language = l

\* languages.find(l => l.language === 'typescript')?.language || 'javascript'
JsLang(langs) == IF HasLanguage(langs, "typescript") THEN "typescript" ELSE "javascript"

RECURSIVE JsFrameworksFrom(_, _, _)
JsFrameworksFrom(deps, lang, i) ==
  IF i > Len(JsFrameworkTable) THEN <<>>
  ELSE PushIf(JsRowMatches(deps, i),
              FrameworkInfo(JsFrameworkTable[i][2],
                            Str(ReplaceCaretTilde(deps[JsFrameworkTable[i][1]].v)), lang))
       \o JsFrameworksFrom(deps, lang, i + 1)

\* deps.<key>.replace(...) on a truthy value that is not a string
FrameworksThrows(ctx, langs) ==
  /\ HasLanguage(langs, "typescript") \/ HasLanguage(langs, "javascript")
  /\ \E i \in 1..Len(JsFrameworkTable) :
       /\ JsRowMatches(MergedDeps(ReadJsonPkg(ctx)), i)
       /\ MergedDeps(ReadJsonPkg(ctx))[JsFrameworkTable[i][1]].t # "string"

\* (requirements || '') + (pyproject || '') contains sub
PythonContentIncludes(ctx, sub) ==
  Includes(ctx, "requirements.txt", sub) \/ Includes(ctx, "pyproject.toml", sub)

DetectedFrameworks(ctx, langs) ==
  (IF HasLanguage(langs, "typescript") \/ HasLanguage(langs, "javascript")
   THEN JsFrameworksFrom(MergedDeps(ReadJsonPkg(ctx)), JsLang(langs), 1)
   ELSE <<>>)
  \o (IF HasLanguage(langs, "go")
      THEN PushIf(Includes(ctx, "go.mod", "github.com/gin-gonic/gin"),
                  FrameworkInfo("gin", Undefined, "go"))
           \o PushIf(Includes(ctx, "go.mod", "github.com/labstack/echo"),
                     FrameworkInfo("echo", Undefined, "go"))
           \o PushIf(Includes(ctx, "go.mod", "github.com/gofiber/fiber"),
                     FrameworkInfo("fiber", Undefined, "go"))
      ELSE <<>>)
  \o (IF HasLanguage(langs, "python")
      THEN PushIf(PythonContentIncludes(ctx, "django"),
                  FrameworkInfo("django", Undefined, "python"))
           \o PushIf(PythonContentIncludes(ctx, "fastapi"),
                     FrameworkInfo("fastapi", Undefined, "python"))
           \o PushIf(PythonContentIncludes(ctx, "flask"),
                     FrameworkInfo("flask", Undefined, "python"))
      ELSE <<>>)
  \o (IF HasLanguage(langs, "ruby")
      THEN PushIf(Includes(ctx, "Gemfile", "rails"), FrameworkInfo("rails", Undefined, "ruby"))
      ELSE <<>>)
  \o (IF HasLanguage(langs, "rust")
      THEN PushIf(Includes(ctx, "Cargo.toml", "actix-web"),
                  FrameworkInfo("actix", Undefined, "rust"))
           \o PushIf(Includes(ctx, "Cargo.toml", "axum"),
                     FrameworkInfo("axum", Undefined, "rust"))
      ELSE <<>>)

detectAllFrameworks(ctx, langs) ==
  IF FrameworksThrows(ctx, langs) THEN Raised ELSE Ok(DetectedFrameworks(ctx, langs))

(***************************************************************************)
(* Test framework and package manager detection                            *)
(***************************************************************************)
detectTestFramework(ctx, language) ==
  LET deps == MergedDeps(ReadJsonPkg(ctx))
      js == language \in {"typescript", "javascript"}
  IN IF js /\ (Truthy(deps["vitest"]) \/ HasFile(ctx, "vitest.config.ts")
                 \/ HasFile(ctx, "vitest.config.js"))
     THEN "vitest"
     ELSE IF js /\ (Truthy(deps["jest"]) \/ HasFile(ctx, "jest.config.js")
                      \/ HasFile(ctx, "jest.config.ts"))
     THEN "jest"
     ELSE IF js /\ Truthy(deps["mocha"]) THEN "mocha"
     ELSE IF language = "go" THEN "go-test"
     ELSE IF language = "python" /\ PythonContentIncludes(ctx, "pytest") THEN "pytest"
     ELSE IF language = "ruby" /\ Includes(ctx, "Gemfile", "rspec") THEN "rspec"
     ELSE "unknown"

\* a plausible slip: yarn.lock is looked for before pnpm-lock.yaml
detectPackageManager_YarnFirst(ctx, language) ==
  IF language \in {"typescript", "javascript"}
  THEN IF HasFile(ctx, "bun.lockb") THEN "bun"
       ELSE IF HasFile(ctx, "yarn.lock") THEN "yarn"
       ELSE IF HasFile(ctx, "pnpm-lock.yaml") THEN "pnpm"
       ELSE "npm"
  ELSE IF language = "go" THEN "go-modules"
  ELSE IF language = "python"
  THEN IF HasFile(ctx, "poetry.lock") THEN "poetry" ELSE "pip"
  ELSE IF language = "rust" THEN "cargo"
  ELSE IF language = "ruby" THEN "bundler"
  ELSE IF language = "java"
  THEN IF HasFile(ctx, "pom.xml") THEN "maven" ELSE "gradle"
  ELSE IF language = "php" THEN "composer"
  ELSE "unknown"

detectPackageManager(ctx, language) ==
  IF language \in {"typescript", "javascript"}
  THEN IF HasFile(ctx, "bun.lockb") THEN "bun"
       ELSE IF HasFile(ctx, "pnpm-lock.yaml") THEN "pnpm"
       ELSE IF HasFile(ctx, "yarn.lock") THEN "yarn"
       ELSE IF HasFile(ctx, "package-lock.json") THEN "npm"
       ELSE "npm"
  ELSE IF language = "go" THEN "go-modules"
  ELSE IF language = "python"
  THEN IF HasFile(ctx, "poetry.lock") THEN "poetry" ELSE "pip"
  ELSE IF language = "rust" THEN "cargo"
  ELSE IF language = "ruby" THEN "bundler"
  ELSE IF language = "java"
  THEN IF HasFile(ctx, "pom.xml") THEN "maven" ELSE "gradle"
  ELSE IF language = "php" THEN "composer"
  ELSE "unknown"

(***************************************************************************)
(* Monorepo detection                                                      *)
(***************************************************************************)
\* workspace patterns and paths are strings, kept as sequences of tokens:
\* a name, "/", "*" or "."
PackagesGlob == <<"packages", "/", "*">>

AppsGlob == <<"apps", "/", "*">>

LibsGlob == <<"libs", "/", "*">>

StrList(seq) == Arr([i \in 1..Len(seq) |-> Str(seq[i])])

MonorepoInfo(type, ws) == [type |-> type, workspaces |-> ws]

\* detectMonorepo returns undefined
NoMonorepo == MonorepoInfo("undefined", Undefined)

\* pkg?.workspaces
PkgWorkspaces(pkg) == IF pkg = Null THEN Undefined ELSE pkg.workspaces

\* <workspaces>.packages: a property only an object carries
PackagesOf(pkg) ==
  IF pkg # Null /\ pkg.workspaces.t = "object" THEN pkg.wsPackages ELSE Undefined

OrElse(x, default) == IF Truthy(x) THEN x ELSE default

\* the checks of detectMonorepo in the order of the code: <<condition, result>>
MonorepoRows(ctx) ==
  LET pkg == ReadJsonPkg(ctx)
      lerna == ReadJsonLerna(ctx)
  IN << <<HasFile(ctx, "pnpm-workspace.yaml"),
          MonorepoInfo("pnpm-workspaces", StrList(ctx.pnpm))>>,
        <<Truthy(PkgWorkspaces(pkg)),
          MonorepoInfo(
            IF HasFile(ctx, "yarn.lock") THEN "yarn-workspaces" ELSE "npm-workspaces",
            IF PkgWorkspaces(pkg).t = "array" THEN PkgWorkspaces(pkg)
            ELSE OrElse(PackagesOf(pkg), Arr(<<>>)))>>,
        <<HasFile(ctx, "turbo.json"),
          MonorepoInfo("turborepo",
            IF PkgWorkspaces(pkg).t = "array" THEN PkgWorkspaces(pkg)
            ELSE OrElse(PackagesOf(pkg), StrList(<<PackagesGlob, AppsGlob>>)))>>,
        <<HasFile(ctx, "nx.json"),
          MonorepoInfo("nx", StrList(<<PackagesGlob, AppsGlob, LibsGlob>>))>>,
        <<HasFile(ctx, "lerna.json"),
          MonorepoInfo("lerna",
            OrElse(IF lerna = Null THEN Undefined ELSE lerna.packages,
                   StrList(<<PackagesGlob>>)))>>,
        <<HasFile(ctx, "go.work"), MonorepoInfo("go-workspace", StrList(ctx.gowork))>>,
        <<Includes(ctx, "Cargo.toml", "[workspace]"),
          MonorepoInfo("cargo-workspace", StrList(ctx.members))>> >>

\* a plausible slip: a later check overrides an earlier one
LastMatching(rows, default) ==
  LET hits == {i \in 1..Len(rows) : rows[i][1]}
  IN IF hits = {} THEN default
     ELSE rows[CHOOSE i \in hits : \A j \in hits : j <= i][2]

\* `if (cond) return result;` row after row: the first row that matches
FirstMatching(rows, default) ==
  LET hits == {i \in 1..Len(rows) : rows[i][1]}
  IN IF hits = {} THEN default
     ELSE rows[CHOOSE i \in hits : \A j \in hits : i <= j][2]

\* a plausible slip: turbo.json is looked for before package.json's workspaces
detectMonorepo_TurboFirst(ctx) ==
  LET rows == MonorepoRows(ctx)
  IN FirstMatching(<<rows[1], rows[3], rows[2]>> \o SubSeq(rows, 4, Len(rows)), NoMonorepo)

detectMonorepo(ctx) == FirstMatching(MonorepoRows(ctx), NoMonorepo)

(***************************************************************************)
(* The directory tree and the workspace scan                               *)
(***************************************************************************)
\* project = [root |-> Dir, tops |-> the subdirectories of the root in
\* listing order, each [name, kids], kids the entries of that subdirectory
\* in listing order, each [name, kind, dir] with kind "dir", "file" (not a
\* directory) or "noaccess" (a directory that cannot be read)].  The
\* subdirectories of the root hold no files of their own.
RootPath == <<".">>

\* the path segments path.join(cwd, p) walks below cwd
Segments(p) == SelectSeq(p, LAMBDA tok : tok \notin {"/", "."})

RECURSIVE JoinSegments(_)
JoinSegments(segs) ==
  IF Len(segs) = 0 THEN RootPath
  ELSE IF Len(segs) = 1 THEN segs
  ELSE <<Head(segs), "/">> \o JoinSegments(Tail(segs))

\* path.join(basePath, name)
PathJoin(base, name) == JoinSegments(Segments(base) \o <<name>>)

MissingNode == [kind |-> "missing", dir |-> EmptyDir, entries |-> <<>>]

Entry(name, kind) == [name |-> name, kind |-> kind]

TopNode(top) ==
  [kind |-> "dir", dir |-> EmptyDir,
   entries |-> [i \in 1..Len(top.kids) |-> Entry(top.kids[i].name, top.kids[i].kind)]]

\* what is found at the path with these segments below the root
Lookup(proj, segs) ==
  IF Len(segs) = 0
  THEN [kind |-> "dir", dir |-> proj.root,
        entries |-> [i \in 1..Len(proj.tops) |-> Entry(proj.tops[i].name, "dir")]]
  ELSE LET ts == {i \in 1..Len(proj.tops) : proj.tops[i].name = segs[1]}
       IN IF ts = {} \/ Len(segs) > 2 THEN MissingNode
          ELSE LET top == proj.tops[CHOOSE i \in ts : TRUE]
                   ks == {j \in 1..Len(top.kids) : top.kids[j].name = segs[2]}
               IN IF Len(segs) = 1 THEN TopNode(top)
                  ELSE IF ks = {} THEN MissingNode
                  ELSE LET kid == top.kids[CHOOSE j \in ks : TRUE]
                       IN [kind |-> kid.kind, dir |-> kid.dir, entries |-> <<>>]

\* pattern.includes('*')
HasStar(p) == \E i \in 1..Len(p) : p[i] = "*"

\* pattern.replace(/\/?\*.*$/, ''): cut at the first '*' and the '/' before it
BasePath(p) ==
  LET i == CHOOSE j \in 1..Len(p) : p[j] = "*" /\ \A k \in 1..(j - 1) : p[k] # "*"
  IN IF i > 1 /\ p[i - 1] = "/" THEN SubSeq(p, 1, i - 2) ELSE SubSeq(p, 1, i - 1)

\* entry.name.startsWith('.')
StartsWithDot(name) == name \in {".git", ".cache"}

RECURSIVE GlobEntries(_, _)
GlobEntries(base, entries) ==
  IF entries = <<>> THEN <<>>
  ELSE PushIf(Head(entries).kind \in {"dir", "noaccess"} /\ ~StartsWithDot(Head(entries).name),
              PathJoin(base, Head(entries).name))
       \o GlobEntries(base, Tail(entries))

\* a plausible slip: a direct path is taken without looking whether it is a
\* directory
ExpandPattern_NoStat(proj, p) ==
  IF HasStar(p)
  THEN LET node == Lookup(proj, Segments(BasePath(p)))
       IN IF node.kind = "dir" THEN GlobEntries(BasePath(p), node.entries) ELSE <<>>
  ELSE <<p>>

\* the directories one pattern of scanSubdirectories contributes
ExpandPattern(proj, p) ==
  IF HasStar(p)
  THEN LET node == Lookup(proj, Segments(BasePath(p)))
       IN IF node.kind = "dir" THEN GlobEntries(BasePath(p), node.entries) ELSE <<>>
  ELSE PushIf(Lookup(proj, Segments(p)).kind \in {"dir", "noaccess"}, p)

\* the values `for (const pattern of patterns)` yields; a string yields its
\* characters (such a string is given with one character per token)
PatternElements(pv) ==
  IF pv.t = "string" THEN [i \in 1..Len(pv.v) |-> Str(<<pv.v[i]>>)] ELSE pv.v

\* for..of over a value that is not iterable, or includes() on a non-string
ScanThrows(pv) ==
  \/ pv.t \notin {"array", "string"}
  \/ \E i \in 1..Len(PatternElements(pv)) : PatternElements(pv)[i].t # "string"

RECURSIVE ScanFrom(_, _)
ScanFrom(proj, elems) ==
  IF elems = <<>> THEN <<>>
  ELSE ExpandPattern(proj, Head(elems).v) \o ScanFrom(proj, Tail(elems))

scanSubdirectories(proj, pv) ==
  IF ScanThrows(pv) THEN Raised ELSE Ok(ScanFrom(proj, PatternElements(pv)))

(***************************************************************************)
(* The stack of one directory                                              *)
(***************************************************************************)
appFrameworks ==
  <<"rails", "django", "flask", "fastapi", "gin", "echo", "fiber", "nestjs", "actix",
    "axum", "spring", "laravel">>

IsAppFramework(f) == \E i \in 1..Len(appFrameworks) : appFrameworks[i] = f

\* frameworks.find(f => appFrameworks.includes(f.framework)): <<>> or <<f>>
FindAppFramework(fws) ==
  LET hits == {i \in 1..Len(fws) : IsAppFramework(fws[i].framework)}
  IN IF hits = {} THEN <<>>
     ELSE <<fws[CHOOSE i \in hits : \A j \in hits : i <= j]>>

\* languages.find(l => l.language === lang) || fallback
FindLanguage(langs, lang, fallback) ==
  LET hits == {i \in 1..Len(langs) : langs[i].language = lang}
  IN IF hits = {} THEN fallback
     ELSE langs[CHOOSE i \in hits : \A j \in hits : i <= j]

\* primaryFramework of detectStackInDirectory: <<>> when none was detected
PrimaryFramework(fws) ==
  IF fws = <<>> THEN <<>>
  ELSE IF FindAppFramework(fws) # <<>> THEN FindAppFramework(fws)
  ELSE <<fws[1]>>

PrimaryLanguage(langs, fws) ==
  IF fws = <<>> THEN langs[1]
  ELSE FindLanguage(langs, PrimaryFramework(fws)[1].language, langs[1])

\* a text manifest that was read and is not the empty string
NonEmptyText(ctx, name) == Readable(ctx, name) /\ ctx.text[name] # {}

\* the package name of detectStackInDirectory
PackageName(ctx) ==
  LET pkg == ReadJsonPkg(ctx)
      n0 == IF pkg = Null THEN Undefined ELSE pkg.name
      n1 == IF ~Truthy(n0) /\ NonEmptyText(ctx, "Cargo.toml")
            THEN (IF Includes(ctx, "Cargo.toml", "name = \"crate\"")
                  THEN Str(<<"crate">>) ELSE Undefined)
            ELSE n0
  IN IF ~Truthy(n1) /\ NonEmptyText(ctx, "go.mod")
     THEN (IF Includes(ctx, "go.mod", "module example.com/svc")
           THEN Str(<<"svc">>) ELSE Undefined)
     ELSE n1

StackItem(l, lv, f, fv, tf, pm, path, name) ==
  [language |-> l, languageVersion |-> lv, framework |-> f, frameworkVersion |-> fv,
   testFramework |-> tf, packageManager |-> pm, path |-> path, name |-> name]

\* detectStackInDirectory: <<>> for null, <<item>> otherwise
\* a plausible slip: a directory without any language is not left out
detectStackInDirectory_NoEarlyReturn(proj, rel) ==
  LET node == Lookup(proj, Segments(rel))
      ctx == node.dir
      langs == detectAllLanguages(ctx)
      fws == detectAllFrameworks(ctx, langs.val)
  IN IF node.kind # "dir" THEN <<>>
     ELSE IF langs.raised THEN <<>>
     ELSE IF fws.raised THEN <<>>
     ELSE LET pl == PrimaryLanguage(langs.val, fws.val)
              pf == PrimaryFramework(fws.val)
          IN <<StackItem(pl.language, pl.version,
                         IF pf = <<>> THEN "unknown" ELSE pf[1].framework,
                         IF pf = <<>> THEN Undefined ELSE pf[1].version,
                         detectTestFramework(ctx, pl.language),
                         detectPackageManager(ctx, pl.language),
                         rel, PackageName(ctx))>>

detectStackInDirectory(proj, rel) ==
  LET node == Lookup(proj, Segments(rel))
      ctx == node.dir
      langs == detectAllLanguages(ctx)
      fws == detectAllFrameworks(ctx, langs.val)
  IN IF node.kind # "dir" THEN <<>>
     ELSE IF langs.raised THEN <<>>
     ELSE IF Len(langs.val) = 0
             \/ (Len(langs.val) = 1 /\ langs.val[1].language = "unknown")
     THEN <<>>
     ELSE IF fws.raised THEN <<>>
     ELSE LET pl == PrimaryLanguage(langs.val, fws.val)
              pf == PrimaryFramework(fws.val)
          IN <<StackItem(pl.language, pl.version,
                         IF pf = <<>> THEN "unknown" ELSE pf[1].framework,
                         IF pf = <<>> THEN Undefined ELSE pf[1].version,
                         detectTestFramework(ctx, pl.language),
                         detectPackageManager(ctx, pl.language),
                         rel, PackageName(ctx))>>

(***************************************************************************)
(* Additional tooling                                                      *)
(***************************************************************************)
\* the rows `if (cond) tools.push(tool)` of detectAdditionalTools, in order
ToolRows(ctx, dirs, deps) ==
  << <<Truthy(deps["prisma"]) \/ Truthy(deps["@prisma/client"]), "Prisma">>,
     <<Truthy(deps["drizzle"]) \/ Truthy(deps["drizzle-orm"]), "Drizzle">>,
     <<Truthy(deps["zustand"]), "Zustand">>,
     <<Truthy(deps["@reduxjs/toolkit"]) \/ Truthy(deps["redux"]), "Redux">>,
     <<Truthy(deps["jotai"]), "Jotai">>,
     <<Truthy(deps["recoil"]), "Recoil">>,
     <<Truthy(deps["@tanstack/react-query"]), "React Query">>,
     <<Truthy(deps["swr"]), "SWR">>,
     <<Truthy(deps["axios"]), "Axios">>,
     <<Truthy(deps["zod"]), "Zod">>,
     <<Truthy(deps["yup"]), "Yup">>,
     <<Truthy(deps["eslint"]) \/ HasFile(ctx, ".eslintrc") \/ HasFile(ctx, ".eslintrc.json"),
       "ESLint">>,
     <<Truthy(deps["prettier"]) \/ HasFile(ctx, ".prettierrc")
         \/ HasFile(ctx, "prettier.config.js"), "Prettier">>,
     <<Truthy(deps["biome"]) \/ HasFile(ctx, "biome.json"), "Biome">>,
     <<HasFile(ctx, "docker-compose.yml") \/ HasFile(ctx, "docker-compose.yaml"), "Docker">>,
     <<".github" \in dirs, "GitHub Actions">> >>

RECURSIVE PushedTools(_)
PushedTools(rows) ==
  IF rows = <<>> THEN <<>>
  ELSE PushIf(Head(rows)[1], Head(rows)[2]) \o PushedTools(Tail(rows))

\* dirs: the names of the subdirectories of ctx's directory
detectAdditionalTools(ctx, dirs, language) ==
  LET deps == MergedDeps(ReadJsonPkg(ctx))
      js == language \in {"typescript", "javascript"}
  IN [styling |->
        IF ~js THEN Undefined
        ELSE IF Truthy(deps["tailwindcss"]) \/ HasFile(ctx, "tailwind.config.js")
                  \/ HasFile(ctx, "tailwind.config.ts")
        THEN Str(<<"Tailwind CSS">>)
        ELSE IF Truthy(deps["styled-components"]) THEN Str(<<"styled-components">>)
        ELSE IF Truthy(deps["@emotion/react"]) THEN Str(<<"Emotion">>)
        ELSE IF HasFile(ctx, "app.module.css") \/ HasFile(ctx, "app.module.scss")
        THEN Str(<<"CSS Modules">>)
        ELSE Undefined,
      database |->
        IF ~js THEN Undefined
        ELSE IF Truthy(deps["drizzle"]) \/ Truthy(deps["drizzle-orm"]) THEN Str(<<"Drizzle">>)
        ELSE IF Truthy(deps["prisma"]) \/ Truthy(deps["@prisma/client"]) THEN Str(<<"Prisma">>)
        ELSE Undefined,
      additionalTools |-> IF js THEN PushedTools(ToolRows(ctx, dirs, deps)) ELSE <<>>]

(***************************************************************************)
(* detectStack                                                             *)
(***************************************************************************)
RECURSIVE StacksOfDirs(_, _)
StacksOfDirs(proj, dirs) ==
  IF dirs = <<>> THEN <<>>
  ELSE detectStackInDirectory(proj, Head(dirs)) \o StacksOfDirs(proj, Tail(dirs))

\* a plausible slip: push where the code has unshift
WithRoot_Appended(rootStack, stacks) ==
  IF rootStack # <<>> /\ rootStack[1].language # "unknown"
  THEN stacks \o <<[rootStack[1] EXCEPT !.path = RootPath, !.name = Str(<<"root">>)]>>
  ELSE stacks

\* stacks.unshift(rootStack) of the monorepo branch
WithRoot(rootStack, stacks) ==
  IF rootStack # <<>> /\ rootStack[1].language # "unknown"
  THEN <<[rootStack[1] EXCEPT !.path = RootPath, !.name = Str(<<"root">>)]>> \o stacks
  ELSE stacks

\* the stacks of the monorepo branch, given the scanned workspace directories
MonorepoStacks(proj, workspaceDirs) ==
  WithRoot(detectStackInDirectory(proj, RootPath), StacksOfDirs(proj, workspaceDirs))

\* orderedLanguages of the non-monorepo branch
OrderedLanguages(langs, fws) ==
  IF FindAppFramework(fws) = <<>> THEN langs
  ELSE SelectSeq(langs, LAMBDA l : l.language = FindAppFramework(fws)[1].language)
       \o SelectSeq(langs, LAMBDA l : l.language # FindAppFramework(fws)[1].language)

RECURSIVE ItemsOfFrameworks(_, _, _)
ItemsOfFrameworks(ctx, lang, fws) ==
  IF fws = <<>> THEN <<>>
  ELSE <<StackItem(lang.language, lang.version, Head(fws).framework, Head(fws).version,
                   detectTestFramework(ctx, lang.language),
                   detectPackageManager(ctx, lang.language), RootPath, Undefined)>>
       \o ItemsOfFrameworks(ctx, lang, Tail(fws))

\* the body of `for (const lang of orderedLanguages)` for one language
ItemsOfLanguage(ctx, lang, fws) ==
  LET langFrameworks == SelectSeq(fws, LAMBDA f : f.language = lang.language)
  IN IF lang.language = "unknown" THEN <<>>
     ELSE IF Len(langFrameworks) > 0 THEN ItemsOfFrameworks(ctx, lang, langFrameworks)
     ELSE <<StackItem(lang.language, lang.version, "unknown", Undefined,
                      detectTestFramework(ctx, lang.language),
                      detectPackageManager(ctx, lang.language), RootPath, Undefined)>>

RECURSIVE RootStacksFrom(_, _, _)
RootStacksFrom(ctx, langs, fws) ==
  IF langs = <<>> THEN <<>>
  ELSE ItemsOfLanguage(ctx, Head(langs), fws) \o RootStacksFrom(ctx, Tail(langs), fws)

\* the stacks of the non-monorepo branch
RootStacks(ctx, langs, fws) == RootStacksFrom(ctx, OrderedLanguages(langs, fws), fws)

UnknownStack ==
  StackItem("unknown", Undefined, "unknown", Undefined, "unknown", "unknown", RootPath,
            Undefined)

\* a plausible slip: the fallback item carries the JavaScript default
OrUnknown_NpmDefault(stacks) ==
  IF Len(stacks) = 0 THEN <<[UnknownStack EXCEPT !.packageManager = "npm"]>> ELSE stacks

\* if (stacks.length === 0) stacks.push({language: 'unknown', ...})
OrUnknown(stacks) == IF Len(stacks) = 0 THEN <<UnknownStack>> ELSE stacks

\* [...new Set(seq)]: the first occurrence of each value, in order
RECURSIVE Unique(_)
Unique(seq) ==
  IF seq = <<>> THEN <<>>
  ELSE LET init == Unique(SubSeq(seq, 1, Len(seq) - 1))
           last == seq[Len(seq)]
       IN IF \E i \in 1..Len(init) : init[i] = last THEN init ELSE Append(init, last)

\* a plausible slip: the filter on 'unknown' is left out
Aggregate_NoFilter(values, primaryValue) == Unique(values)

\* allLanguages / allFrameworks of the returned TechStack
Aggregate(values, primaryValue) ==
  LET known == SelectSeq(Unique(values), LAMBDA x : x # "unknown")
  IN IF Len(known) > 0 THEN known ELSE <<primaryValue>>

TechStack(ctx, dirs, stacks, mono) ==
  LET primary == stacks[1]
      tools == detectAdditionalTools(ctx, dirs, primary.language)
  IN [language |-> primary.language, languageVersion |-> primary.languageVersion,
      framework |-> primary.framework, frameworkVersion |-> primary.frameworkVersion,
      testFramework |-> primary.testFramework, packageManager |-> primary.packageManager,
      styling |-> tools.styling, database |-> tools.database,
      additionalTools |-> tools.additionalTools,
      stacks |-> stacks, monorepo |-> mono,
      allLanguages |->
        Aggregate([i \in 1..Len(stacks) |-> stacks[i].language], primary.language),
      allFrameworks |->
        Aggregate([i \in 1..Len(stacks) |-> stacks[i].framework], primary.framework)]

TopNames(proj) == {proj.tops[i].name : i \in 1..Len(proj.tops)}

\* detectStack(cwd) for an existing, readable cwd
detectStack(proj) ==
  LET ctx == proj.root
      mono == detectMonorepo(ctx)
      workspaceDirs == scanSubdirectories(proj, mono.workspaces)
      langs == detectAllLanguages(ctx)
      fws == detectAllFrameworks(ctx, langs.val)
  IN IF mono # NoMonorepo
     THEN IF workspaceDirs.raised THEN Raised
          ELSE Ok(TechStack(ctx, TopNames(proj),
                            OrUnknown(MonorepoStacks(proj, workspaceDirs.val)), mono))
     ELSE IF langs.raised THEN Raised
     ELSE IF fws.raised THEN Raised
     ELSE Ok(TechStack(ctx, TopNames(proj),
                       OrUnknown(RootStacks(ctx, langs.val, fws.val)), mono))

(***************************************************************************)
(* The inputs the detectors are run on                                     *)
(***************************************************************************)
\* bounds of the generated inputs
MaxRootFiles == 2

MaxDeps == 2

MaxPatterns == 2

\* the largest number of paths in a naming sample
MaxSamples == 4

\* the largest number of key directories of a scored structure
MaxKeyDirs == 2

\* the largest number of lines of a rules document
MaxLines == 4

\* the largest number of *.md files in an agent or skill directory
MaxAgentFiles == 2

\* the largest number of directories listed under the source directory
MaxListed == 3

\* the subsets of U with at most k elements
RECURSIVE KSubsets(_, _)
KSubsets(U, k) ==
  IF k = 0 THEN {{}}
  ELSE LET S == KSubsets(U, k - 1) IN S \cup {s \cup {x} : s \in S, x \in U}

\* the sequences over U of length at most k
RECURSIVE SeqsUpTo(_, _)
SeqsUpTo(U, k) ==
  IF k = 0 THEN {<<>>}
  ELSE LET S == SeqsUpTo(U, k - 1) IN S \cup {Append(q, x) : q \in S, x \in U}

DevKeys == {"typescript", "vitest", "jest", "mocha", "eslint", "prettier", "biome"}

\* a version string, a number where a string is expected, the empty string
DepVals == {Str(<<"^", "1">>), Num, Str(<<>>)}

\* package.json with the dependency values a (a function on some keys):
\* tooling keys under devDependencies, the others under dependencies
PkgOf(a) ==
  [EmptyPkg EXCEPT
     !.dependencies = [k \in DOMAIN a \ DevKeys |-> a[k]],
     !.devDependencies = [k \in DOMAIN a \cap DevKeys |-> a[k]]]

\* the dependency maps on at most n of the keys
DepAssignments(keys, n) == UNION {[K -> DepVals] : K \in KSubsets(keys, n)}

\* the substrings of interest a generated text manifest may contain
FlagsOf(f) ==
  IF f = "go.mod"
  THEN {"go 1.21", "github.com/gin-gonic/gin", "github.com/labstack/echo"}
  ELSE IF f = "requirements.txt" THEN {"django", "flask", "pytest"}
  ELSE IF f = "pyproject.toml" THEN {"django", "fastapi"}
  ELSE IF f = "Gemfile" THEN {"rails", "rspec"}
  ELSE {"actix-web", "axum"}

TextOptions(f, F) == IF f \in F THEN SUBSET FlagsOf(f) ELSE {{}}

TextsFor(F) ==
  {[f \in TextFiles |->
      IF f = "go.mod" THEN a ELSE IF f = "requirements.txt" THEN b
      ELSE IF f = "pyproject.toml" THEN c ELSE IF f = "Gemfile" THEN d ELSE e] :
     a \in TextOptions("go.mod", F), b \in TextOptions("requirements.txt", F),
     c \in TextOptions("pyproject.toml", F), d \in TextOptions("Gemfile", F),
     e \in TextOptions("Cargo.toml", F)}

Project(root, tops) == [root |-> root, tops |-> tops]

----
\* Single directories without a workspace system: every choice of at most
\* nFiles files, with every generated content.
SingleFiles ==
  LanguageMarkers
  \cup {"bun.lockb", "pnpm-lock.yaml", "yarn.lock", "package-lock.json", "poetry.lock",
        "vitest.config.ts", "jest.config.js"}

SingleDepKeys == {"next", "react", "vue", "@nestjs/core", "express", "typescript", "jest"}

\* a package.json JSON.parse rejects still holds text: its fields are what a
\* reader that skipped the parse would see
SinglePkgs(nDeps) ==
  {PkgOf(a) : a \in DepAssignments(SingleDepKeys, nDeps)}
  \cup {[PkgOf(a) EXCEPT !.ok = FALSE] : a \in DepAssignments(SingleDepKeys, 1)}

SingleDirs(nFiles, nDeps) ==
  UNION {{[EmptyDir EXCEPT !.files = F, !.pkg = p, !.text = t] :
            p \in (IF "package.json" \in F THEN SinglePkgs(nDeps) ELSE {EmptyPkg}),
            t \in TextsFor(F)} :
         F \in KSubsets(SingleFiles, nFiles)}

SingleProjects(nFiles, nDeps) == {Project(d, <<>>) : d \in SingleDirs(nFiles, nDeps)}

----
\* Projects with a workspace system: one marker at the root, optionally a
\* language of the root's own, and workspace directories below packages/
\* and apps/.
PatternUniverse == {PackagesGlob, AppsGlob, <<"packages", "/", "a">>, <<"*">>}

\* values of package.json's "workspaces" field
WorkspacesArrays ==
  {StrList(<<PackagesGlob>>), StrList(<<AppsGlob, PackagesGlob>>), Arr(<<>>), Arr(<<Num>>)}

\* values of the "packages" property of an object-valued "workspaces" field;
\* the string "*" is one character long
WorkspacesPackages == {Undefined, StrList(<<PackagesGlob>>), Num, Str(<<"*">>)}

WorkspacesPkgs ==
  {[EmptyPkg EXCEPT !.workspaces = w] : w \in WorkspacesArrays \cup {Str(PackagesGlob)}}
  \cup {[EmptyPkg EXCEPT !.ok = FALSE, !.workspaces = StrList(<<PackagesGlob>>)]}
  \cup {[EmptyPkg EXCEPT !.workspaces = Obj, !.wsPackages = q] : q \in WorkspacesPackages}

LernaVals ==
  {EmptyLerna, [EmptyLerna EXCEPT !.ok = FALSE, !.packages = StrList(<<AppsGlob>>)],
   [EmptyLerna EXCEPT !.packages = StrList(<<AppsGlob>>)],
   [EmptyLerna EXCEPT !.packages = Num]}

GoWorkLists == {<<>>, << <<".", "/", "packages", "/", "a">>, <<"packages", "/", "b">> >>}

MemberLists == {<<>>, << PackagesGlob >>}

\* the roots with one workspace marker; pnpm lists of at most nPatterns patterns
MarkerRoots(nPatterns) ==
  {[EmptyDir EXCEPT !.files = {"pnpm-workspace.yaml"}, !.pnpm = l] :
     l \in SeqsUpTo(PatternUniverse, nPatterns)}
  \cup {[EmptyDir EXCEPT !.files = {"package.json"} \cup y, !.pkg = p] :
          p \in WorkspacesPkgs, y \in {{}, {"yarn.lock"}}}
  \cup {[EmptyDir EXCEPT !.files = {"turbo.json"}], [EmptyDir EXCEPT !.files = {"nx.json"}]}
  \cup {[EmptyDir EXCEPT !.files = {"lerna.json"}, !.lerna = l] : l \in LernaVals}
  \cup {[EmptyDir EXCEPT !.files = {"go.work"}, !.gowork = l] : l \in GoWorkLists}
  \cup {[EmptyDir EXCEPT !.files = {"Cargo.toml"},
                         !.text["Cargo.toml"] = {"[workspace]", "axum"},
                         !.members = l] : l \in MemberLists}

\* the root's own language, added to a marker root
WithRootLanguage(d, prof) ==
  IF prof = "typescript" THEN [d EXCEPT !.files = @ \cup {"tsconfig.json"}]
  ELSE IF prof = "go"
  THEN [d EXCEPT !.files = @ \cup {"go.mod"},
                 !.text["go.mod"] = {"github.com/gin-gonic/gin"}]
  ELSE IF prof = "number-version"
  THEN [d EXCEPT !.files = @ \cup {"package.json"},
                 !.pkg.dependencies = ("react" :> Num) @@ @]
  ELSE d

RootLanguageProfiles == {"none", "typescript", "go", "number-version"}

\* contents of a workspace directory
WsNest ==
  [EmptyDir EXCEPT
     !.files = {"package.json", "tsconfig.json"},
     !.pkg = [PkgOf([k \in {"react", "@nestjs/core"} |-> Str(<<"^", "1">>)])
                EXCEPT !.name = Str(<<"api">>)]]

WsReact ==
  [EmptyDir EXCEPT !.files = {"package.json"},
                   !.pkg = PkgOf([k \in {"react"} |-> Str(<<"~", "1">>)])]

WsNumberVersion ==
  [EmptyDir EXCEPT !.files = {"package.json"}, !.pkg = PkgOf([k \in {"next"} |-> Num])]

WsMalformed ==
  [EmptyDir EXCEPT
     !.files = {"package.json"},
     !.pkg = [PkgOf([k \in {"express"} |-> Str(<<"^", "1">>)]) EXCEPT !.ok = FALSE]]

WsGin ==
  [EmptyDir EXCEPT
     !.files = {"go.mod"},
     !.text["go.mod"] = {"github.com/gin-gonic/gin", "module example.com/svc"}]

WsDjango ==
  [EmptyDir EXCEPT !.files = {"requirements.txt", "package.json"},
                   !.text["requirements.txt"] = {"django"},
                   !.pkg = PkgOf([k \in {"vue"} |-> Str(<<"1">>)])]

Kid(name, kind, dir) == [name |-> name, kind |-> kind, dir |-> dir]

\* what may stand at packages/a: nothing, a directory, a file, or a
\* directory that cannot be read
KidsA ==
  {<<>>, <<Kid("a", "file", EmptyDir)>>, <<Kid("a", "noaccess", WsNest)>>}
  \cup {<<Kid("a", "dir", d)>> :
          d \in {EmptyDir, WsNest, WsReact, WsNumberVersion, WsMalformed, WsGin}}

KidsB == {<<>>} \cup {<<Kid("b", "dir", d)>> : d \in {EmptyDir, WsNest, WsGin}}

KidsHidden == {<<>>, <<Kid(".cache", "dir", WsGin)>>}

\* the listing of packages/: a and b in either order, then a dot directory
PackagesListings ==
  {x \o h : x \in {a \o b : a \in KidsA, b \in KidsB} \cup {b \o a : a \in KidsA, b \in KidsB},
            h \in KidsHidden}

AppsListings == {<<>>} \cup {<<Kid("web", "dir", d)>> : d \in {WsReact, WsDjango}}

Top(name, kids) == [name |-> name, kids |-> kids]

\* a subdirectory of the root exists when it has an entry
Tops(pk, ap) ==
  (IF pk = <<>> THEN <<>> ELSE <<Top("packages", pk)>>)
  \o (IF ap = <<>> THEN <<>> ELSE <<Top("apps", ap)>>)

WorkspaceProjects(nPatterns) ==
  {Project(WithRootLanguage(m, prof), Tops(pk, ap)) :
     m \in MarkerRoots(nPatterns), prof \in RootLanguageProfiles,
     pk \in PackagesListings, ap \in AppsListings}

Projects(nFiles, nDeps, nPatterns) ==
  SingleProjects(nFiles, nDeps) \cup WorkspaceProjects(nPatterns)

(***************************************************************************)
(* The analysis of one project: detectStack is run once on the tree.       *)
(***************************************************************************)
Idle == [lctx |-> EmptyDir, languages |-> Raised, mctx |-> EmptyDir, monorepo |-> NoMonorepo,
         project |-> Project(EmptyDir, <<>>), stack |-> Raised,
         samples |-> <<>>, convention |-> "none",
         scored |-> <<>>, confidence |-> <<>>,
         claudeMd |-> <<>>, parsed |-> <<>>,
         agentFs |-> <<>>, existing |-> <<>>,
         sdir |-> <<>>, structure |-> <<>>,
         pmArgs |-> <<>>, packageManager |-> "none",
         targs |-> <<>>, cwdFiles |-> <<>>,
         cmdArgs |-> <<>>, commands |-> <<>>,
         fargs |-> <<>>, frameworks |-> Raised,
         scanArgs |-> <<>>, scanned |-> Raised,
         cproject |-> <<>>, compat |-> <<>>]

\* every function is studied on its own: the variables of the others, all
\* but those of group g, hold their idle values ...
IdleBut(g) ==
  /\ IF g = "stack" THEN TRUE
     ELSE project = Idle.project /\ stack = Idle.stack
  /\ IF g = "languages" THEN TRUE
     ELSE lctx = Idle.lctx /\ languages = Idle.languages
  /\ IF g = "monorepo" THEN TRUE
     ELSE mctx = Idle.mctx /\ monorepo = Idle.monorepo
  /\ IF g = "naming" THEN TRUE
     ELSE samples = Idle.samples /\ convention = Idle.convention
  /\ IF g = "confidence" THEN TRUE
     ELSE scored = Idle.scored /\ confidence = Idle.confidence
  /\ IF g = "documents" THEN TRUE
     ELSE claudeMd = Idle.claudeMd /\ parsed = Idle.parsed
  /\ IF g = "agents" THEN TRUE
     ELSE agentFs = Idle.agentFs /\ existing = Idle.existing
  /\ IF g = "structure" THEN TRUE
     ELSE sdir = Idle.sdir /\ structure = Idle.structure
  /\ IF g = "packageManager" THEN TRUE
     ELSE pmArgs = Idle.pmArgs /\ packageManager = Idle.packageManager
  /\ IF g = "transform" THEN TRUE
     ELSE targs = Idle.targs /\ cwdFiles = Idle.cwdFiles
  /\ IF g = "commands" THEN TRUE
     ELSE cmdArgs = Idle.cmdArgs /\ commands = Idle.commands
  /\ IF g = "frameworks" THEN TRUE
     ELSE fargs = Idle.fargs /\ frameworks = Idle.frameworks
  /\ IF g = "scan" THEN TRUE
     ELSE scanArgs = Idle.scanArgs /\ scanned = Idle.scanned
  /\ IF g = "compat" THEN TRUE
     ELSE cproject = Idle.cproject /\ compat = Idle.compat

\* ... and keep them
KeepBut(g) ==
  /\ IF g = "stack" THEN TRUE ELSE UNCHANGED <<project, stack>>
  /\ IF g = "languages" THEN TRUE ELSE UNCHANGED <<lctx, languages>>
  /\ IF g = "monorepo" THEN TRUE ELSE UNCHANGED <<mctx, monorepo>>
  /\ IF g = "naming" THEN TRUE ELSE UNCHANGED <<samples, convention>>
  /\ IF g = "confidence" THEN TRUE ELSE UNCHANGED <<scored, confidence>>
  /\ IF g = "documents" THEN TRUE ELSE UNCHANGED <<claudeMd, parsed>>
  /\ IF g = "agents" THEN TRUE ELSE UNCHANGED <<agentFs, existing>>
  /\ IF g = "structure" THEN TRUE ELSE UNCHANGED <<sdir, structure>>
  /\ IF g = "packageManager" THEN TRUE ELSE UNCHANGED <<pmArgs, packageManager>>
  /\ IF g = "transform" THEN TRUE ELSE UNCHANGED <<targs, cwdFiles>>
  /\ IF g = "commands" THEN TRUE ELSE UNCHANGED <<cmdArgs, commands>>
  /\ IF g = "frameworks" THEN TRUE ELSE UNCHANGED <<fargs, frameworks>>
  /\ IF g = "scan" THEN TRUE ELSE UNCHANGED <<scanArgs, scanned>>
  /\ IF g = "compat" THEN TRUE ELSE UNCHANGED <<cproject, compat>>

Init ==
  /\ pc = "ready"
  /\ project \in Projects(MaxRootFiles, MaxDeps, MaxPatterns)
  /\ stack = Idle.stack
  /\ IdleBut("stack")

DetectStack ==
  /\ pc = "ready"
  /\ stack' = detectStack(project)
  /\ pc' = "done"
  /\ UNCHANGED project
  /\ KeepBut("stack")

Next == DetectStack

Spec == Init /\ [][Next]_vars

(***************************************************************************)
(* detectAllLanguages on its own, on every combination of marker files     *)
(***************************************************************************)
LanguagePkgs ==
  {PkgOf([k \in {"typescript"} |-> x]) :
     x \in {Null, Num, Str(<<>>), Str(<<"^", "5">>), Str(<<"~", "^", "5">>)}}
  \cup {EmptyPkg}
  \cup {[PkgOf([k \in {"typescript"} |-> Num]) EXCEPT !.ok = FALSE]}

\* every set of marker files, alone and beside the files `others`
LanguageDirs(others) ==
  UNION {{[EmptyDir EXCEPT !.files = F, !.pkg = p, !.text["go.mod"] = g] :
            p \in (IF "package.json" \in F THEN LanguagePkgs ELSE {EmptyPkg}),
            g \in (IF "go.mod" \in F THEN {{}, {"go 1.21"}} ELSE {{}})} :
         F \in SUBSET (LanguageMarkers \cup others)}

InitLanguages ==
  /\ pc = "ready"
  /\ lctx \in LanguageDirs({"yarn.lock"})
  /\ languages = Idle.languages
  /\ IdleBut("languages")

DetectAllLanguages ==
  /\ pc = "ready"
  /\ languages' = detectAllLanguages(lctx)
  /\ pc' = "done"
  /\ UNCHANGED lctx
  /\ KeepBut("languages")

NextLanguages == DetectAllLanguages

SpecLanguages == InitLanguages /\ [][NextLanguages]_vars

(***************************************************************************)
(* detectMonorepo on its own, on every combination of workspace markers    *)
(***************************************************************************)
MonorepoFiles ==
  {"pnpm-workspace.yaml", "package.json", "yarn.lock", "turbo.json", "nx.json",
   "lerna.json", "go.work", "Cargo.toml"}

\* each system is given a list of its own
PnpmList == << <<"modules", "/", "*">> >>

PkgList == << <<"workspaces", "/", "*">> >>

LernaList == << <<"components", "/", "*">> >>

GoWorkList == << <<"svc">>, <<"cmd">> >>

MemberList == << <<"crates", "/", "*">> >>

MonorepoPkgs ==
  {[EmptyPkg EXCEPT !.workspaces = w] :
     w \in {Undefined, Null, Str(<<>>), StrList(PkgList), Arr(<<>>)}}
  \cup {[EmptyPkg EXCEPT !.workspaces = Obj, !.wsPackages = q] :
          q \in {Undefined, StrList(PkgList)}}
  \cup {[EmptyPkg EXCEPT !.ok = FALSE, !.workspaces = StrList(PkgList)]}

MonorepoLernas ==
  {EmptyLerna, [EmptyLerna EXCEPT !.packages = StrList(LernaList)],
   [EmptyLerna EXCEPT !.ok = FALSE, !.packages = StrList(LernaList)]}

MonorepoDirs(names) ==
  UNION {{[EmptyDir EXCEPT
             !.files = F, !.pkg = p, !.lerna = l, !.text["Cargo.toml"] = c,
             !.pnpm = IF "pnpm-workspace.yaml" \in F THEN PnpmList ELSE <<>>,
             !.gowork = IF "go.work" \in F THEN GoWorkList ELSE <<>>,
             !.members = IF "[workspace]" \in c THEN MemberList ELSE <<>>] :
            p \in (IF "package.json" \in F THEN MonorepoPkgs ELSE {EmptyPkg}),
            l \in (IF "lerna.json" \in F THEN MonorepoLernas ELSE {EmptyLerna}),
            c \in (IF "Cargo.toml" \in F THEN {{}, {"[workspace]"}, {"axum"}} ELSE {{}})} :
         F \in SUBSET names}

InitMonorepo ==
  /\ pc = "ready"
  /\ mctx \in MonorepoDirs(MonorepoFiles)
  /\ monorepo = Idle.monorepo
  /\ IdleBut("monorepo")

DetectMonorepo ==
  /\ pc = "ready"
  /\ monorepo' = detectMonorepo(mctx)
  /\ pc' = "done"
  /\ UNCHANGED mctx
  /\ KeepBut("monorepo")

NextMonorepo == DetectMonorepo

SpecMonorepo == InitMonorepo /\ [][NextMonorepo]_vars

(***************************************************************************)
(* Properties                                                              *)
(***************************************************************************)
\* C10: detectAllLanguages returns a non-empty list; the list is the single
\* entry {language: 'unknown'} exactly when none of the twelve marker files
\* is present, and 'unknown' never stands beside another language.
C10_LanguagesNonEmpty ==
  (pc = "done" /\ ~languages.raised) =>
    /\ Len(languages.val) >= 1
    /\ (languages.val = <<LanguageInfo("unknown", Undefined)>>)
         <=> (lctx.files \cap LanguageMarkers = {})
    /\ HasLanguage(languages.val, "unknown") => Len(languages.val) = 1

\* a directory that holds a file, but no marker file, gives 'unknown'
C10_Witness ==
  /\ pc = "done" /\ ~languages.raised
  /\ lctx.files = {"yarn.lock"}
  /\ languages.val = <<LanguageInfo("unknown", Undefined)>>

----
\* the markers of the workspace systems, in the order the claim fixes
MarkerPresent(ctx, i) ==
  IF i = 1 THEN "pnpm-workspace.yaml" \in ctx.files
  ELSE IF i = 2
  THEN "package.json" \in ctx.files /\ ctx.pkg.ok /\ Truthy(ctx.pkg.workspaces)
  ELSE IF i = 3 THEN "turbo.json" \in ctx.files
  ELSE IF i = 4 THEN "nx.json" \in ctx.files
  ELSE IF i = 5 THEN "lerna.json" \in ctx.files
  ELSE IF i = 6 THEN "go.work" \in ctx.files
  ELSE "Cargo.toml" \in ctx.files /\ "[workspace]" \in ctx.text["Cargo.toml"]

SystemType(ctx, i) ==
  IF i = 1 THEN "pnpm-workspaces"
  ELSE IF i = 2
  THEN (IF "yarn.lock" \in ctx.files THEN "yarn-workspaces" ELSE "npm-workspaces")
  ELSE IF i = 3 THEN "turborepo"
  ELSE IF i = 4 THEN "nx"
  ELSE IF i = 5 THEN "lerna"
  ELSE IF i = 6 THEN "go-workspace"
  ELSE "cargo-workspace"

\* the workspace list system i states itself (its own file, or its default)
SystemList(ctx, i) ==
  IF i = 1 THEN StrList(ctx.pnpm)
  ELSE IF i = 2
  THEN (IF ctx.pkg.workspaces.t = "array" THEN ctx.pkg.workspaces
        ELSE IF Truthy(ctx.pkg.wsPackages) THEN ctx.pkg.wsPackages ELSE Arr(<<>>))
  ELSE IF i = 3 THEN StrList(<<PackagesGlob, AppsGlob>>)
  ELSE IF i = 4 THEN StrList(<<PackagesGlob, AppsGlob, LibsGlob>>)
  ELSE IF i = 5
  THEN (IF ctx.lerna.ok /\ Truthy(ctx.lerna.packages) THEN ctx.lerna.packages
        ELSE StrList(<<PackagesGlob>>))
  ELSE IF i = 6 THEN StrList(ctx.gowork)
  ELSE StrList(ctx.members)

\* C4: detectMonorepo reports the first system, in the fixed order, whose
\* marker is present, with that system's own workspace list; without any
\* marker it returns undefined.
C4_FirstMarkerWins ==
  pc = "done" =>
    /\ (\A i \in 1..7 : ~MarkerPresent(mctx, i)) => monorepo = NoMonorepo
    /\ \A i \in 1..7 :
         (MarkerPresent(mctx, i) /\ \A j \in 1..(i - 1) : ~MarkerPresent(mctx, j))
           => monorepo = MonorepoInfo(SystemType(mctx, i), SystemList(mctx, i))

\* turbo.json, nx.json, lerna.json and a Cargo workspace together: turborepo
C4_Witness ==
  /\ pc = "done"
  /\ {"turbo.json", "nx.json", "lerna.json", "Cargo.toml", "package.json"} \subseteq mctx.files
  /\ MarkerPresent(mctx, 7) /\ ~MarkerPresent(mctx, 2)
  /\ monorepo.type = "turborepo"

----
\* detectStack returned a TechStack
Returned == pc = "done" /\ ~stack.raised

InMonorepo == stack.val.monorepo # NoMonorepo

Contains(seq, x) == \E i \in 1..Len(seq) : seq[i] = x

\* C1 as claimed: neither allLanguages nor allFrameworks contains 'unknown'.
C1_NoUnknownAggregated ==
  Returned =>
    /\ ~Contains(stack.val.allLanguages, "unknown")
    /\ ~Contains(stack.val.allFrameworks, "unknown")

\* C1 as amended: allLanguages and allFrameworks are never empty, and
\* 'unknown' occurs in one of them only as its single element, exactly when
\* no item of stacks has a known language (respectively framework).
C1_UnknownOnlyAsFallback ==
  Returned =>
    LET st == stack.val.stacks
        al == stack.val.allLanguages
        af == stack.val.allFrameworks
    IN /\ Len(al) >= 1 /\ Len(af) >= 1
       /\ Contains(al, "unknown") <=> (\A i \in 1..Len(st) : st[i].language = "unknown")
       /\ Contains(al, "unknown") => al = <<"unknown">>
       /\ Contains(af, "unknown") <=> (\A i \in 1..Len(st) : st[i].framework = "unknown")
       /\ Contains(af, "unknown") => af = <<"unknown">>

\* a monorepo whose root has a language but no framework beside a workspace
\* with a framework: 'unknown' is filtered out of allFrameworks
C1_Witness ==
  /\ Returned /\ InMonorepo
  /\ Len(stack.val.stacks) >= 2
  /\ stack.val.stacks[1].framework = "unknown"
  /\ stack.val.allFrameworks = <<"nestjs">>

----
\* no directory of the tree holds a language marker file
NoMarkerAnywhere(proj) ==
  /\ proj.root.files \cap LanguageMarkers = {}
  /\ \A i \in 1..Len(proj.tops) : \A j \in 1..Len(proj.tops[i].kids) :
       proj.tops[i].kids[j].dir.files \cap LanguageMarkers = {}

\* C2: stacks has at least one element, with and without a workspace system;
\* when nothing is recognised it is exactly the one all-'unknown' item with
\* path '.'.
C2_StacksNeverEmpty ==
  Returned =>
    LET st == stack.val.stacks
    IN /\ Len(st) >= 1
       /\ (NoMarkerAnywhere(project) \/ \A i \in 1..Len(st) : st[i].language = "unknown")
            => st = <<UnknownStack>>

\* a monorepo with workspace directories of which none is recognised
C2_Witness ==
  /\ Returned /\ InMonorepo
  /\ project.tops # <<>>
  /\ stack.val.stacks = <<UnknownStack>>

----
\* the frameworks detected in a directory that detection does not throw on
FrameworksOf(ctx) == detectAllFrameworks(ctx, detectAllLanguages(ctx).val).val

\* the whitelist tie-break: the first whitelisted framework, else the first
TieBreak(fws) ==
  IF FindAppFramework(fws) # <<>> THEN FindAppFramework(fws)[1] ELSE fws[1]

\* C3 as claimed: the primary framework of a non-monorepo root, and the
\* framework of every workspace item, is the first whitelisted framework
\* detected in that directory (the first detected one if none is
\* whitelisted), and the language is that framework's language.
C3_PrimaryIsFirstAppFramework ==
  Returned =>
    /\ (~InMonorepo /\ FrameworksOf(project.root) # <<>>) =>
         /\ stack.val.framework = TieBreak(FrameworksOf(project.root)).framework
         /\ stack.val.language = TieBreak(FrameworksOf(project.root)).language
         /\ stack.val.stacks[1].framework = stack.val.framework
    /\ InMonorepo =>
         \A i \in 1..Len(stack.val.stacks) :
           LET item == stack.val.stacks[i]
               fws == FrameworksOf(Lookup(project, Segments(item.path)).dir)
           IN (item.language # "unknown" /\ fws # <<>>) =>
                /\ item.framework = TieBreak(fws).framework
                /\ item.language = TieBreak(fws).language

----
\* the directories the workspace patterns expand to
ExpandedDirs == scanSubdirectories(project, stack.val.monorepo.workspaces).val

IsRootItem(item) == item.path = RootPath /\ item.name = Str(<<"root">>)

\* the items of stacks that stand for workspace directories
WorkspaceItems ==
  LET st == stack.val.stacks
  IN IF st = <<UnknownStack>> THEN <<>>
     ELSE IF IsRootItem(st[1]) THEN Tail(st) ELSE st

PathsOf(items) == [i \in 1..Len(items) |-> items[i].path]

\* language detection in the directory at path d finds a language
Recognised(d) ==
  /\ Lookup(project, Segments(d)).kind = "dir"
  /\ Lookup(project, Segments(d)).dir.files \cap LanguageMarkers # {}

\* C5 as claimed: an expanded directory that is unreadable or has no
\* language contributes no item, every other one exactly one item with its
\* relative path.
C5_OneItemPerRecognisedWorkspace ==
  (Returned /\ InMonorepo) =>
    PathsOf(WorkspaceItems) = SelectSeq(ExpandedDirs, Recognised)

\* the root, probed as a workspace of its own, resolves to a known language
RootResolves ==
  /\ detectStackInDirectory(project, RootPath) # <<>>
  /\ detectStackInDirectory(project, RootPath)[1].language # "unknown"

C7_DistinctPaths ==
  (Returned /\ InMonorepo) =>
    \A i, j \in 1..Len(stack.val.stacks) :
      i # j => stack.val.stacks[i].path # stack.val.stacks[j].path

----
DirsOfProject(proj, f(_)) ==
  [root |-> f(proj.root),
   tops |-> [i \in 1..Len(proj.tops) |->
               [proj.tops[i] EXCEPT !.kids =
                  [j \in 1..Len(proj.tops[i].kids) |->
                     [proj.tops[i].kids[j] EXCEPT !.dir = f(proj.tops[i].kids[j].dir)]]]]]

\* the directory with every JSON manifest that does not parse deleted
WithoutMalformed(d) ==
  [d EXCEPT !.files = @ \ ((IF d.pkg.ok THEN {} ELSE {"package.json"})
                           \cup (IF d.lerna.ok THEN {} ELSE {"lerna.json"}))]

\* the directory with every JSON manifest that does not parse replaced by {}
WithEmptyObjects(d) ==
  [d EXCEPT !.pkg = IF d.pkg.ok THEN @ ELSE EmptyPkg,
            !.lerna = IF d.lerna.ok THEN @ ELSE EmptyLerna]

\* C8 as claimed: unparseable manifests give the result their deletion gives.
C8_MalformedAsMissing ==
  pc = "done" => stack = detectStack(DirsOfProject(project, WithoutMalformed))

\* C8 as amended: an unparseable JSON manifest (package.json, lerna.json) is
\* read as null and its presence still counts: detectStack gives the result
\* it gives when the file holds the empty object {}.
C8_MalformedAsEmptyObject ==
  pc = "done" => stack = detectStack(DirsOfProject(project, WithEmptyObjects))

\* a root whose only marker is an unparseable package.json naming a
\* dependency is reported as a javascript project without framework
C8_Witness ==
  /\ Returned
  /\ project.root.files = {"package.json"}
  /\ ~project.root.pkg.ok
  /\ project.root.pkg.dependencies = [k \in {"express"} |-> Str(<<"^", "1">>)]
  /\ stack.val.language = "javascript"
  /\ stack.val.framework = "unknown"

----
\* C9 as claimed: detectStack never raises.
C9_NeverRaises == pc = "done" => ~stack.raised

\* C11: the list detectAllLanguages returns holds at most one of 'typescript'
\* and 'javascript' (with tsconfig.json it holds 'typescript' and, package.json
\* or not, no 'javascript'), and no language occurs in it twice.
C11_OneJsFamilyEntryNoRepeats ==
  (pc = "done" /\ ~languages.raised) =>
    LET ls == languages.val
    IN /\ ~(HasLanguage(ls, "typescript") /\ HasLanguage(ls, "javascript"))
       /\ HasFile(lctx, "tsconfig.json") =>
            HasLanguage(ls, "typescript") /\ ~HasLanguage(ls, "javascript")
       /\ \A i, j \in 1..Len(ls) : ls[i].language = ls[j].language => i = j

\* tsconfig.json beside package.json and other markers: 'typescript' first,
\* no 'javascript'
C11_Witness ==
  /\ pc = "done" /\ ~languages.raised
  /\ {"tsconfig.json", "package.json", "go.mod", "setup.py", "pyproject.toml"}
       \subseteq lctx.files
  /\ languages.val[1].language = "typescript"
  /\ Len(languages.val) >= 3

(***************************************************************************)
(* Naming conventions (detectNamingConvention).  A file path is the        *)
(* sequence of its characters.                                             *)
(***************************************************************************)
LowerCase == {"a", "b", "s", "t", "u"}

UpperCase == {"A", "B"}

Digits == {"1"}

\* index of the last occurrence of character c in p, 0 when there is none
LastIndexOf(p, c) ==
  LET at == {i \in 1..Len(p) : p[i] = c}
  IN IF at = {} THEN 0 ELSE CHOOSE i \in at : \A j \in at : j <= i

\* path.basename(sample)
Basename(p) == SubSeq(p, LastIndexOf(p, "/") + 1, Len(p))

\* name.replace(/\.[^.]+$/, ''): the last dot and what follows it, when
\* something follows it
RemoveExtension(name) ==
  LET dot == LastIndexOf(name, ".")
  IN IF dot > 0 /\ dot < Len(name) THEN SubSeq(name, 1, dot - 1) ELSE name

\* /^[first][rest]*$/.test(name)
RegexTest(first, rest, name) ==
  /\ Len(name) >= 1
  /\ name[1] \in first
  /\ \A i \in 2..Len(name) : name[i] \in rest

\* Object.entries(patterns), in insertion order
NamingPatternOrder ==
  <<"camelCase", "PascalCase", "snake_case", "kebab-case", "SCREAMING_SNAKE_CASE">>

PatternTest(convention_, name) ==
  CASE convention_ = "camelCase" ->
         RegexTest(LowerCase, LowerCase \cup UpperCase \cup Digits, name)
    [] convention_ = "PascalCase" ->
         RegexTest(UpperCase, LowerCase \cup UpperCase \cup Digits, name)
    [] convention_ = "snake_case" ->
         RegexTest(LowerCase, LowerCase \cup Digits \cup {"_"}, name)
    [] convention_ = "kebab-case" ->
         RegexTest(LowerCase, LowerCase \cup Digits \cup {"-"}, name)
    [] convention_ = "SCREAMING_SNAKE_CASE" ->
         RegexTest(UpperCase, UpperCase \cup Digits \cup {"_"}, name)

\* the convention one sample is counted under: the first pattern that
\* matches its name, 'mixed' when none does
CountedAs(sample) ==
  LET name == RemoveExtension(Basename(sample))
      hits == {i \in 1..Len(NamingPatternOrder) :
                 PatternTest(NamingPatternOrder[i], name)}
  IN IF hits = {} THEN "mixed"
     ELSE NamingPatternOrder[CHOOSE i \in hits : \A j \in hits : i <= j]

\* Object.entries(counts), in insertion order
CountOrder == NamingPatternOrder \o <<"mixed">>

Count(samples_, convention_) ==
  Cardinality({i \in 1..Len(samples_) : CountedAs(samples_[i]) = convention_})

\* the scan for the dominant convention: a later entry replaces an earlier
\* one only with a strictly greater count
Dominant(samples_, k) ==
  LET F[i \in 0..k] ==
        IF i = 0 THEN [maxCount |-> 0, dominant |-> "mixed"]
        ELSE IF Count(samples_, CountOrder[i]) > F[i - 1].maxCount
        THEN [maxCount |-> Count(samples_, CountOrder[i]), dominant |-> CountOrder[i]]
        ELSE F[i - 1]
  IN F[k]

\* maxCount < samples.length * 0.6, in fifths: both sides are exact in
\* double precision for the sample sizes considered
BelowSixtyPercent(count, total) == 5 * count < 3 * total

detectNamingConvention(samples_) ==
  IF Len(samples_) = 0 THEN "mixed"
  ELSE LET d == Dominant(samples_, Len(CountOrder))
       IN IF BelowSixtyPercent(d.maxCount, Len(samples_)) THEN "mixed"
          ELSE d.dominant

\* the file paths samples are drawn from: a.ts, utils/aB.ts, Ab.ts, AB.ts,
\* a_b.ts, a-b.ts, A_B.ts, a1, a.b.ts, .a
SamplePaths ==
  {<<"a", ".", "t", "s">>, <<"u", "t", "s", "/", "a", "B", ".", "t", "s">>,
   <<"A", "b", ".", "t", "s">>, <<"A", "B", ".", "t", "s">>,
   <<"a", "_", "b", ".", "t", "s">>, <<"a", "-", "b", ".", "t", "s">>,
   <<"A", "_", "B", ".", "t", "s">>, <<"a", "1">>,
   <<"a", ".", "b", ".", "t", "s">>, <<".", "a">>}

InitNaming ==
  /\ pc = "ready"
  /\ samples \in SeqsUpTo(SamplePaths, MaxSamples)
  /\ convention = Idle.convention
  /\ IdleBut("naming")

DetectNamingConvention ==
  /\ pc = "ready"
  /\ convention' = detectNamingConvention(samples)
  /\ pc' = "done"
  /\ UNCHANGED samples
  /\ KeepBut("naming")

NextNaming == DetectNamingConvention

SpecNaming == InitNaming /\ [][NextNaming]_vars

\* the names of the sample, as the classifier sees them
SampleNames == [i \in 1..Len(samples) |-> RemoveExtension(Basename(samples[i]))]

\* how many names of the sample are written in a style
WrittenIn(style) ==
  Cardinality({i \in 1..Len(samples) : PatternTest(style, SampleNames[i])})

Styles == {NamingPatternOrder[i] : i \in 1..Len(NamingPatternOrder)}

\* the sample falls into two or more styles, the same number of names in each
EvenSplit ==
  \E K \in SUBSET Styles :
    /\ Cardinality(K) >= 2
    /\ \A i \in 1..Len(samples) : CountedAs(samples[i]) \in K
    /\ \A c, d \in K : Count(samples, c) = Count(samples, d) /\ Count(samples, c) > 0

\* C12: a non-empty sample of which at least 60% of the names are written in
\* one casing style gives that style; a sample split evenly across two or
\* more styles gives 'mixed'; the empty sample gives 'mixed'.
C12_SixtyPercentStyleWins ==
  (pc = "done" /\ convention # Idle.convention) =>
    /\ \A c \in Styles :
         (Len(samples) > 0 /\ 5 * WrittenIn(c) >= 3 * Len(samples))
           => convention = c
    /\ EvenSplit => convention = "mixed"
    /\ samples = <<>> => convention = "mixed"

(***************************************************************************)
(* Confidence (calculateConfidence).  The scores are JavaScript numbers:   *)
(* a double in [0, 4) is the string of its binary digits, digit k weighing *)
(* 2^(2-k), and a sum is rounded to 53 significant digits, ties to even.   *)
(***************************************************************************)
MantissaBits == 53

Width == MantissaBits + 6

Zero == [k \in 1..Width |-> 0]

\* position of the most significant 1, 0 for zero
LeadingOne(x) ==
  LET ones == {k \in 1..Width : x[k] = 1}
  IN IF ones = {} THEN 0 ELSE CHOOSE k \in ones : \A j \in ones : k <= j

\* the exact sum of two digit strings
RECURSIVE AddFrom(_, _, _, _)
\* digits 1..k of x + y, given the carry into digit k
AddFrom(x, y, k, carry) ==
  IF k = 0 \/ carry \notin {0, 1} THEN <<>>
  ELSE AddFrom(x, y, k - 1, (x[k] + y[k] + carry) \div 2)
         \o <<(x[k] + y[k] + carry) % 2>>

AddBits(x, y) == AddFrom(x, y, Width, 0)

\* round to nearest, ties to even; `more` tells of non-zero digits beyond Width
RoundWith(x, more) ==
  LET last == LeadingOne(x) + MantissaBits - 1
  IN IF LeadingOne(x) = 0 \/ last >= Width THEN x
     ELSE LET kept == [k \in 1..Width |-> IF k <= last THEN x[k] ELSE 0]
              sticky == more \/ \E k \in (last + 2)..Width : x[k] = 1
              up == x[last + 1] = 1 /\ (sticky \/ x[last] = 1)
          IN IF up
             THEN AddBits(kept, [k \in 1..Width |-> IF k = last THEN 1 ELSE 0])
             ELSE kept

\* a + b on doubles
DoubleAdd(x, y) == RoundWith(AddBits(x, y), FALSE)

\* x / 2 on doubles
Halve(x) == [k \in 1..Width |-> IF k = 1 THEN 0 ELSE x[k - 1]]

\* the double a literal 0.n denotes: n/10 expanded in binary, then rounded
RECURSIVE Expand(_, _)
\* the first k binary digits of r/10 (r < 10), followed by what remains
Expand(r, k) ==
  IF k = 0 THEN <<r>>
  ELSE <<IF 2 * r >= 10 THEN 1 ELSE 0>> \o Expand((2 * r) % 10, k - 1)

Tenths(n) ==
  LET e == Expand(n, Width - 2)
  IN RoundWith(<<0, 0>> \o SubSeq(e, 1, Width - 2), e[Width - 1] # 0)

AddIf(cond, score, weight) == IF cond THEN DoubleAdd(score, weight) ELSE score

\* a plausible slip: the two sub-scores are added but not halved
Overall_Sum(stackScore, patternsScore) == DoubleAdd(stackScore, patternsScore)

Overall(stackScore, patternsScore) == Halve(DoubleAdd(stackScore, patternsScore))

StackScore(stack_) ==
  AddIf(stack_.packageManager # "unknown",
    AddIf(stack_.testFramework # "unknown",
      AddIf(stack_.framework # "unknown",
        AddIf(stack_.language # "unknown", Zero, Tenths(4)),
        Tenths(3)),
      Tenths(2)),
    Tenths(1))

PatternsScore(patterns_) ==
  AddIf(Truthy(patterns_.naming.files.components)
          \/ Truthy(patterns_.naming.files.utilities),
    AddIf(Len(patterns_.structure.keyDirectories) > 0,
      AddIf(patterns_.structure.type # "unknown", Zero, Tenths(4)),
      Tenths(3)),
    Tenths(3))

calculateConfidence(stack_, patterns_) ==
  [stack |-> StackScore(stack_),
   patterns |-> PatternsScore(patterns_),
   overall |-> Overall(StackScore(stack_), PatternsScore(patterns_))]

StructureTypes == {"feature-based", "layer-based", "flat", "hybrid", "unknown"}

ScoredStacks ==
  [language : {"unknown", "typescript"}, framework : {"unknown", "react"},
   testFramework : {"unknown", "jest"}, packageManager : {"unknown", "npm"}]

KeyDirectoryLists(n) ==
  {SubSeq(<<[path |-> <<"utils">>, purpose |-> "Utility functions"],
            [path |-> <<"config">>, purpose |-> "Configuration"],
            [path |-> <<"types">>, purpose |-> "Type definitions"],
            [path |-> <<"models">>, purpose |-> "Data models"]>>, 1, k) :
     k \in 0..n}

FileConventions == {Undefined, Str(<<"PascalCase">>), Str(<<"mixed">>)}

ScoredPatterns(n) ==
  {[structure |-> [type |-> t, keyDirectories |-> kd],
    naming |-> [files |-> [components |-> c, utilities |-> u]]] :
     t \in StructureTypes, kd \in KeyDirectoryLists(n),
     c \in FileConventions, u \in FileConventions}

InitConfidence ==
  /\ pc = "ready"
  /\ scored \in [stack : ScoredStacks, patterns : ScoredPatterns(MaxKeyDirs)]
  /\ confidence = Idle.confidence
  /\ IdleBut("confidence")

CalculateConfidence ==
  /\ pc = "ready"
  /\ confidence' = calculateConfidence(scored.stack, scored.patterns)
  /\ pc' = "done"
  /\ UNCHANGED scored
  /\ KeepBut("confidence")

NextConfidence == CalculateConfidence

SpecConfidence == InitConfidence /\ [][NextConfidence]_vars

\* a score is at most 1 (scores are never negative)
AtMostOne(x) == x[1] = 0 /\ (x[2] = 0 \/ \A k \in 3..Width : x[k] = 0)

RECURSIVE WeightedSum(_, _)
\* the sum, left to right, of the weights whose condition holds
WeightedSum(conds, weights) ==
  IF conds = <<>> THEN Zero
  ELSE LET n == Len(conds)
           rest == WeightedSum(SubSeq(conds, 1, n - 1), SubSeq(weights, 1, n - 1))
       IN IF conds[n] THEN DoubleAdd(rest, Tenths(weights[n])) ELSE rest

StackFullyUnknown ==
  /\ scored.stack.language = "unknown" /\ scored.stack.framework = "unknown"
  /\ scored.stack.testFramework = "unknown"
  /\ scored.stack.packageManager = "unknown"

NamingPresent ==
  \/ Truthy(scored.patterns.naming.files.components)
  \/ Truthy(scored.patterns.naming.files.utilities)

\* the scores are in [0,1], weighted as stated, and overall is their mean
ScoresWeightedAndBounded ==
  /\ AtMostOne(confidence.stack) /\ AtMostOne(confidence.patterns)
  /\ AtMostOne(confidence.overall)
  /\ confidence.overall = Halve(DoubleAdd(confidence.stack, confidence.patterns))
  /\ confidence.stack =
       WeightedSum(<<scored.stack.language # "unknown",
                     scored.stack.framework # "unknown",
                     scored.stack.testFramework # "unknown",
                     scored.stack.packageManager # "unknown">>, <<4, 3, 2, 1>>)
  /\ confidence.patterns =
       WeightedSum(<<scored.patterns.structure.type # "unknown",
                     Len(scored.patterns.structure.keyDirectories) > 0,
                     NamingPresent>>, <<4, 3, 3>>)

\* C13: calculateConfidence returns stack, patterns and overall scores in
\* [0,1], overall being the arithmetic mean of the two sub-scores (weights
\* 0.4/0.3/0.2/0.1 and 0.4/0.3/0.3); whenever the stack is fully 'unknown' and
\* the structure type is 'unknown', overall is 0.
C13_ZeroWhenTypeUnknown ==
  (pc = "done" /\ confidence # Idle.confidence) =>
    /\ ScoresWeightedAndBounded
    /\ (StackFullyUnknown /\ scored.patterns.structure.type = "unknown")
         => confidence.overall = Zero

\* C13 as the code has it: overall is 0 exactly when, besides, no key
\* directory is recorded and no component or utility file convention is set.
C13_ZeroWhenNothingKnown ==
  (pc = "done" /\ confidence # Idle.confidence) =>
    /\ ScoresWeightedAndBounded
    /\ confidence.overall = Zero <=>
         /\ StackFullyUnknown /\ scored.patterns.structure.type = "unknown"
         /\ scored.patterns.structure.keyDirectories = <<>>
         /\ ~NamingPresent

\* everything known: the stack score is the double just below 1, the
\* patterns score is 1
C13_Witness ==
  /\ pc = "done" /\ confidence # Idle.confidence
  /\ \A f \in DOMAIN scored.stack : scored.stack[f] # "unknown"
  /\ scored.patterns.structure.type = "hybrid"
  /\ Len(scored.patterns.structure.keyDirectories) = 2 /\ NamingPresent
  /\ confidence.stack[2] = 0 /\ confidence.stack[3] = 1
  /\ confidence.patterns[2] = 1

(***************************************************************************)
(* The rules document parser (extractSection, extractCustomSections,       *)
(* parseClaudeMd).  A line is the sequence of its tokens: the characters   *)
(* '#', '-', '*', '.', ' ', '\r', a digit, or a word.  The Japanese        *)
(* aliases are written in Latin letters.                                   *)
(***************************************************************************)
WhiteSpace == {" ", "\r", "\n"}

\* what `.` does not match
LineTerminators == {"\r", "\n"}

DigitTokens == {"1", "2"}

\* toLowerCase / the 'i' flag, on a token
LowerToken(w) ==
  CASE w = "Rules" -> "rules" [] w = "Project" -> "project"
    [] w = "Conventions" -> "conventions" [] w = "Code" -> "code"
    [] w = "Warnings" -> "warnings" [] w = "Cautions" -> "cautions"
    [] w = "Must" -> "must" [] w = "Do" -> "do" [] w = "Required" -> "required"
    [] w = "Prefer" -> "prefer" [] w = "Recommended" -> "recommended"
    [] w = "Deploy" -> "deploy" [] w = "Notes" -> "notes"
    [] w = "Tech" -> "tech" [] w = "Stack" -> "stack"
    [] OTHER -> w

ToLowerCase(text) == [i \in 1..Len(text) |-> LowerToken(text[i])]

\* String.prototype.trim
TrimStart(text) ==
  LET keep == {i \in 1..Len(text) : text[i] \notin WhiteSpace}
  IN IF keep = {} THEN <<>>
     ELSE SubSeq(text, CHOOSE i \in keep : \A j \in keep : i <= j, Len(text))

TrimEnd(text) ==
  LET keep == {i \in 1..Len(text) : text[i] \notin WhiteSpace}
  IN IF keep = {} THEN <<>>
     ELSE SubSeq(text, 1, CHOOSE i \in keep : \A j \in keep : j <= i)

Trim(text) == TrimStart(TrimEnd(text))

StartsWith(text, prefix) ==
  Len(text) >= Len(prefix) /\ SubSeq(text, 1, Len(prefix)) = prefix

\* new RegExp(`^##\\s*${pattern}\\s*$`, 'i').test(line.trim())
MatchesHeader(line, pattern) ==
  LET t == Trim(line)
  IN /\ StartsWith(t, <<"#", "#">>)
     /\ ToLowerCase(TrimStart(SubSeq(t, 3, Len(t)))) = ToLowerCase(pattern)

isTargetHeader(line, headerPatterns) ==
  \E i \in 1..Len(headerPatterns) : MatchesHeader(line, headerPatterns[i])

\* a plausible slip: the loop is never left at the next heading
EndsSection_Never(line) == FALSE

\* /^##\s/.test(line)
EndsSection(line) ==
  Len(line) >= 3 /\ line[1] = "#" /\ line[2] = "#" /\ line[3] \in WhiteSpace

\* number of leading digit tokens
LeadingDigits(text) ==
  LET stop == {i \in 1..Len(text) : text[i] \notin DigitTokens}
  IN IF stop = {} THEN Len(text) ELSE (CHOOSE i \in stop : \A j \in stop : i <= j) - 1

\* /^\d+\.\s/.test(trimmed)
IsNumbered(t) ==
  LET d == LeadingDigits(t)
  IN d >= 1 /\ Len(t) >= d + 2 /\ t[d + 1] = "." /\ t[d + 2] \in WhiteSpace

\* what one line of a section adds to the list
ListItems(line) ==
  LET t == Trim(line)
  IN IF StartsWith(t, <<"-", " ">>) \/ StartsWith(t, <<"*", " ">>)
     THEN <<Trim(SubSeq(t, 3, Len(t)))>>
     ELSE IF IsNumbered(t)
     THEN <<Trim(SubSeq(t, LeadingDigits(t) + 2, Len(t)))>>
     ELSE <<>>

RECURSIVE ExtractFrom(_, _, _, _)
\* the loop of extractSection from line i on
ExtractFrom(content, headerPatterns, i, inSection) ==
  IF i > Len(content) THEN <<>>
  ELSE IF isTargetHeader(content[i], headerPatterns)
  THEN ExtractFrom(content, headerPatterns, i + 1, TRUE)
  ELSE IF inSection /\ EndsSection(content[i]) THEN <<>>
  ELSE IF inSection
  THEN ListItems(content[i]) \o ExtractFrom(content, headerPatterns, i + 1, TRUE)
  ELSE ExtractFrom(content, headerPatterns, i + 1, FALSE)

extractSection(content, headerPatterns) ==
  ExtractFrom(content, headerPatterns, 1, FALSE)

\* line.match(/^##\s+(.+)$/): \s+ takes the white space after '##' and gives
\* back what (.+) needs; the text is group 1, trimmed
HeaderMatch(line) ==
  LET rest == SubSeq(line, 3, Len(line))
      body == TrimStart(rest)
      group == IF body # <<>> THEN body ELSE SubSeq(rest, 2, Len(rest))
  IN IF /\ StartsWith(line, <<"#", "#">>)
        /\ Len(line) >= 3 /\ line[3] \in WhiteSpace
        /\ group # <<>>
        /\ \A i \in 1..Len(group) : group[i] \notin LineTerminators
        /\ body = <<>> => rest[Len(rest)] \notin LineTerminators
     THEN [matched |-> TRUE, text |-> Trim(group)]
     ELSE [matched |-> FALSE, text |-> <<>>]

knownHeaders ==
  << <<"rules">>, <<"ruuru">>, <<"conventions">>, <<"kiyaku">>,
     <<"must", " ", "do">>, <<"prefer">>, <<"warnings">>, <<"chuui">>,
     <<"tech", " ", "stack">>, <<"commands">>, <<"project", " ", "structure">> >>

\* String.prototype.includes
IncludesText(text, sub) ==
  \E i \in 0..(Len(text) - Len(sub)) : SubSeq(text, i + 1, i + Len(sub)) = sub

IsKnownHeader(header) ==
  \E i \in 1..Len(knownHeaders) : IncludesText(ToLowerCase(header), knownHeaders[i])

RECURSIVE JoinLines(_)
\* currentContent.join('\n')
JoinLines(lines) ==
  IF lines = <<>> THEN <<>>
  ELSE IF Len(lines) = 1 THEN lines[1]
  ELSE lines[1] \o <<"\n">> \o JoinLines(Tail(lines))

NoSections == [h \in {} |-> <<>>]

\* the previous section is saved if it was custom
SaveSection(sections, currentHeader, currentContent) ==
  IF currentHeader # <<>> /\ ~IsKnownHeader(currentHeader)
  THEN (currentHeader :> Trim(JoinLines(currentContent))) @@ sections
  ELSE sections

RECURSIVE CustomFrom(_, _, _, _, _)
\* the loop of extractCustomSections from line i on, and the final save
CustomFrom(lines, i, sections, currentHeader, currentContent) ==
  IF i > Len(lines) THEN SaveSection(sections, currentHeader, currentContent)
  ELSE IF HeaderMatch(lines[i]).matched
  THEN CustomFrom(lines, i + 1,
                  SaveSection(sections, currentHeader, currentContent),
                  HeaderMatch(lines[i]).text, <<>>)
  ELSE IF currentHeader # <<>>
  THEN CustomFrom(lines, i + 1, sections, currentHeader,
                  Append(currentContent, lines[i]))
  ELSE CustomFrom(lines, i + 1, sections, currentHeader, currentContent)

extractCustomSections(content) == CustomFrom(content, 1, NoSections, <<>>, <<>>)

\* the aliases of the five categories, in the order of parseClaudeMd
CategoryAliases ==
  [rules |-> << <<"Rules">>, <<"ruuru">>, <<"Project", " ", "Rules">> >>,
   conventions |-> << <<"Conventions">>, <<"kiyaku">>, <<"Code", " ", "Conventions">> >>,
   warnings |-> << <<"Warnings">>, <<"chuui">>, <<"keikoku">>, <<"Cautions">> >>,
   mustDo |-> << <<"Must", " ", "Do">>, <<"hissu">>, <<"Required">> >>,
   prefer |-> << <<"Prefer">>, <<"suishou">>, <<"Recommended">> >>]

Categories == <<"rules", "conventions", "warnings", "mustDo", "prefer">>

parseClaudeMd(content) ==
  [rules |-> extractSection(content, CategoryAliases.rules),
   conventions |-> extractSection(content, CategoryAliases.conventions),
   warnings |-> extractSection(content, CategoryAliases.warnings),
   mustDo |-> extractSection(content, CategoryAliases.mustDo),
   prefer |-> extractSection(content, CategoryAliases.prefer),
   customSections |-> extractCustomSections(content)]

\* the lines documents are made of
DocumentLines ==
  {<<"#", "#", " ", "Rules">>, <<"#", "#", "rules">>,
   <<"#", "#", " ", "Project", " ", "Rules">>,
   <<"#", "#", " ", "Conventions">>, <<"#", "#", " ", "Cautions">>,
   <<"#", "#", " ", "Deploy", " ", "Rules">>,
   <<"#", "#", " ", "Notes">>, <<"#", "#", " ", "Notes", "\r">>,
   <<"#", " ", "Title">>, <<"#", "#", "#", " ", "Sub">>,
   <<"-", " ", "a">>, <<" ", "*", " ", "b", " ">>, <<"1", "2", ".", " ", "c">>,
   <<"-", "d">>, <<"text">>}

InitDocuments ==
  /\ pc = "ready"
  /\ claudeMd \in SeqsUpTo(DocumentLines, MaxLines)
  /\ parsed = Idle.parsed
  /\ IdleBut("documents")

ParseClaudeMd ==
  /\ pc = "ready"
  /\ parsed' = parseClaudeMd(claudeMd)
  /\ pc' = "done"
  /\ UNCHANGED claudeMd
  /\ KeepBut("documents")

NextDocuments == ParseClaudeMd

SpecDocuments == InitDocuments /\ [][NextDocuments]_vars

RECURSIVE Flatten(_)
Flatten(seqs) == IF seqs = <<>> THEN <<>> ELSE seqs[1] \o Flatten(Tail(seqs))

\* a list written back: the heading of its category, then one bullet per item
BulletedSection(heading, items) ==
  << <<"#", "#", " ">> \o heading >>
    \o [i \in 1..Len(items) |-> <<"-", " ">> \o items[i]]

\* the five extracted lists written back as a document
Reserialized(p) ==
  Flatten([i \in 1..Len(Categories) |->
             BulletedSection(CategoryAliases[Categories[i]][1], p[Categories[i]])])

ParsedDone == pc = "done" /\ parsed # Idle.parsed

\* C14: extraction is idempotent: writing the five extracted lists back as
\* bulleted sections under their category headings and parsing the result
\* gives the same five lists, the same items in the same order.
C14_ExtractionIdempotent ==
  ParsedDone =>
    \A i \in 1..Len(Categories) :
      parseClaudeMd(Reserialized(parsed))[Categories[i]] = parsed[Categories[i]]

\* a document with a numbered rule and a bulleted convention
C14_Witness ==
  /\ ParsedDone
  /\ Len(claudeMd) = 4 /\ claudeMd[2] = <<"1", "2", ".", " ", "c">>
  /\ parsed.rules = << <<"c">> >>
  /\ parsed.conventions = << <<"a">> >>
  /\ Len(Reserialized(parsed)) = 7

\* a heading of level 1 or 2: '# ' or '## ' at the start of the line
IsHeadingUpToLevel2(line) ==
  \/ Len(line) >= 2 /\ line[1] = "#" /\ line[2] \in WhiteSpace
  \/ Len(line) >= 3 /\ line[1] = "#" /\ line[2] = "#" /\ line[3] \in WhiteSpace

\* the list items between the first heading matching an alias and the next
\* heading of the same or a higher level
SectionAsSpecified(content, headerPatterns) ==
  LET heads == {i \in 1..Len(content) : isTargetHeader(content[i], headerPatterns)}
  IN IF heads = {} THEN <<>>
     ELSE LET first == CHOOSE i \in heads : \A j \in heads : i <= j
              ends == {j \in (first + 1)..Len(content) : IsHeadingUpToLevel2(content[j])}
              last == IF ends = {} THEN Len(content)
                      ELSE (CHOOSE j \in ends : \A k \in ends : j <= k) - 1
          IN Flatten([k \in 1..(last - first) |-> ListItems(content[first + k])])

\* C16: extractSection returns, in document order, exactly the bulleted and
\* numbered lines, markers removed, between the first heading matching an
\* alias and the next heading of the same or a higher level ('## ' or '# ').
C16_SectionEndsAtNextHeading ==
  ParsedDone =>
    \A i \in 1..Len(Categories) :
      parsed[Categories[i]] = SectionAsSpecified(claudeMd, CategoryAliases[Categories[i]])

\* the text of a level-2 heading line, <<>> for any other line
Level2Text(line) ==
  IF Len(line) >= 3 /\ line[1] = "#" /\ line[2] = "#" /\ line[3] \in WhiteSpace
  THEN Trim(SubSeq(line, 3, Len(line))) ELSE <<>>

IsCategoryAlias(text) ==
  \E i \in 1..Len(Categories) :
    \E j \in 1..Len(CategoryAliases[Categories[i]]) :
      ToLowerCase(text) = ToLowerCase(CategoryAliases[Categories[i]][j])

\* the last line of the section that starts at line i
SectionEnd(content, i) ==
  LET next == {j \in (i + 1)..Len(content) : Level2Text(content[j]) # <<>>}
  IN IF next = {} THEN Len(content)
     ELSE (CHOOSE j \in next : \A k \in next : j <= k) - 1

\* the document without the body of the section that starts at line i
WithoutBody(content, i) ==
  SubSeq(content, 1, i) \o SubSeq(content, SectionEnd(content, i) + 1, Len(content))

\* C15: for every level-2 heading whose text is no category alias, the full
\* body of its section is stored under customSections[heading text], and the
\* list items of that body are in none of the five lists (the lists are those
\* of the document without that body), whatever words the heading contains.
C15_CustomSectionsKeepBody ==
  ParsedDone =>
    \A i \in 1..Len(claudeMd) :
      (Level2Text(claudeMd[i]) # <<>> /\ ~IsCategoryAlias(Level2Text(claudeMd[i]))) =>
        /\ Level2Text(claudeMd[i]) \in DOMAIN parsed.customSections
        /\ parsed.customSections[Level2Text(claudeMd[i])] =
             Trim(JoinLines(SubSeq(claudeMd, i + 1, SectionEnd(claudeMd, i))))
        /\ \A c \in 1..Len(Categories) :
             parsed[Categories[c]] =
               parseClaudeMd(WithoutBody(claudeMd, i))[Categories[c]]

(***************************************************************************)
(* Existing agents and skills (detectExistingAgents).  The file system     *)
(* gives each candidate directory a kind ("missing", "file", "dir") and,   *)
(* for a directory, its *.md files in the order fast-glob lists them; a    *)
(* file has a name, may be unreadable, and may start with '---'.           *)
(***************************************************************************)
agentDirs == <<".claude/agents", ".agents">>

skillDirs == <<".claude/skills", ".skills">>

RECURSIVE PushedFiles(_, _, _)
\* the loop over the files of one directory: the entries pushed, and whether
\* fs.readFile threw before the end
PushedFiles(type, dirPath, files) ==
  IF files = <<>> THEN [agents |-> <<>>, threw |-> FALSE]
  ELSE LET file == files[1]
           rest == PushedFiles(type, dirPath, Tail(files))
       IN IF file.name[1] = "_" \/ (type = "skill" /\ file.name = <<"SKILL", ".md">>)
          THEN rest
          ELSE IF ~file.readable THEN [agents |-> <<>>, threw |-> TRUE]
          ELSE [rest EXCEPT !.agents =
                  <<[path |-> <<dirPath, file.name>>,
                     name |-> SubSeq(file.name, 1, Len(file.name) - 1),
                     type |-> IF type = "skill" /\ ~file.frontmatter
                              THEN "agent" ELSE type]>> \o @]

RECURSIVE ScanDirs(_, _, _, _, _)
\* the loop over the candidate directories dirs[i..] of one category
ScanDirs(fs, type, dirs, i, found) ==
  IF i > Len(dirs) THEN [agents |-> <<>>, directory |-> found]
  ELSE IF fs[dirs[i]].kind # "dir" THEN ScanDirs(fs, type, dirs, i + 1, found)
  ELSE LET directory == IF found = Undefined THEN Str(dirs[i]) ELSE found
           pushed == PushedFiles(type, dirs[i], fs[dirs[i]].files)
       IN IF pushed.threw
          THEN [ScanDirs(fs, type, dirs, i + 1, directory) EXCEPT
                  !.agents = pushed.agents \o @]
          ELSE [agents |-> pushed.agents, directory |-> directory]

detectExistingAgents(fs) ==
  [agents |-> ScanDirs(fs, "agent", agentDirs, 1, Undefined).agents
                \o ScanDirs(fs, "skill", skillDirs, 1, Undefined).agents,
   agentDirectory |-> ScanDirs(fs, "agent", agentDirs, 1, Undefined).directory,
   skillDirectory |-> ScanDirs(fs, "skill", skillDirs, 1, Undefined).directory]

MdFile(name, readable, frontmatter) ==
  [name |-> name, readable |-> readable, frontmatter |-> frontmatter]

AgentFiles ==
  {MdFile(<<"a", ".md">>, TRUE, FALSE), MdFile(<<"u", ".md">>, FALSE, FALSE),
   MdFile(<<"_", "draft", ".md">>, TRUE, FALSE)}

SkillFiles ==
  {MdFile(<<"s", ".md">>, TRUE, TRUE), MdFile(<<"p", ".md">>, TRUE, FALSE),
   MdFile(<<"u", ".md">>, FALSE, TRUE), MdFile(<<"SKILL", ".md">>, TRUE, TRUE)}

\* a candidate path: missing, a plain file, or a directory of up to n files
CandidateStates(files, n) ==
  {[kind |-> "missing", files |-> <<>>], [kind |-> "file", files |-> <<>>]}
  \cup {[kind |-> "dir", files |-> f] :
          f \in {g \in SeqsUpTo(files, n) :
                   \A i, j \in 1..Len(g) : g[i] = g[j] => i = j}}

InitAgents ==
  /\ pc = "ready"
  /\ \E a1, a2 \in CandidateStates(AgentFiles, MaxAgentFiles) :
       \E s1, s2 \in CandidateStates(SkillFiles, MaxAgentFiles) :
         agentFs = (agentDirs[1] :> a1) @@ (agentDirs[2] :> a2)
                     @@ (skillDirs[1] :> s1) @@ (skillDirs[2] :> s2)
  /\ existing = Idle.existing
  /\ IdleBut("agents")

DetectExistingAgents ==
  /\ pc = "ready"
  /\ existing' = detectExistingAgents(agentFs)
  /\ pc' = "done"
  /\ UNCHANGED agentFs
  /\ KeepBut("agents")

NextAgents == DetectExistingAgents

SpecAgents == InitAgents /\ [][NextAgents]_vars

\* the first candidate that is a directory, Undefined when there is none
FirstExisting(dirs) ==
  LET there == {i \in 1..Len(dirs) : agentFs[dirs[i]].kind = "dir"}
  IN IF there = {} THEN Undefined
     ELSE Str(dirs[CHOOSE i \in there : \A j \in there : i <= j])

\* every returned entry of the category comes from its first existing directory
OnlyFrom(dirs) ==
  \A i \in 1..Len(existing.agents) :
    (\E k \in 1..Len(dirs) : existing.agents[i].path[1] = dirs[k])
      => Str(existing.agents[i].path[1]) = FirstExisting(dirs)

\* C17: in each category only the first candidate directory that exists is
\* read (.claude/agents before .agents, .claude/skills before .skills): the
\* list never holds files of two agent or of two skill directories, and
\* agentDirectory / skillDirectory name that first directory, also when
\* reading a file of the chosen directory fails.
C17_FirstExistingDirectoryOnly ==
  (pc = "done" /\ existing # Idle.existing) =>
    /\ existing.agentDirectory = FirstExisting(agentDirs)
    /\ existing.skillDirectory = FirstExisting(skillDirs)
    /\ OnlyFrom(agentDirs) /\ OnlyFrom(skillDirs)

(***************************************************************************)
(* Directory structure (detectDirectoryStructure).  `tree` is the set of   *)
(* directories under cwd, each the sequence of its path segments; a        *)
(* segment is a sequence of tokens ("apps" is <<"app", "s">>), so that     *)
(* String.includes can look inside a name.  `listed` is the result of the  *)
(* fast-glob call: the directories under the source directory, depth at    *)
(* most 2, as segment paths relative to it, in the order they came.        *)
(***************************************************************************)
sourceDirs == << <<"src">>, <<"app">>, <<"lib">>, <<"pkg">>, <<"internal">>, <<"cmd">> >>

testDirs == << <<"test">>, <<"tests">>, <<"__tests__">>, <<"spec">> >>

\* the first candidate that is a directory under cwd, `default` if none is
FirstDirectory(tree, candidates, default) ==
  LET there == {i \in 1..Len(candidates) : <<candidates[i]>> \in tree}
  IN IF there = {} THEN default
     ELSE candidates[CHOOSE i \in there : \A j \in there : i <= j]

\* the directories fg(['**/'], {cwd: join(cwd, sourceDir), deep: 2}) finds
Listing(tree, sourceDir) ==
  IF sourceDir = <<".">> THEN {q \in tree : Len(q) <= 2}
  ELSE {SubSeq(q, 2, Len(q)) : q \in {r \in tree : Len(r) \in 2..3 /\ r[1] = sourceDir}}

\* a listed path as a string: the segments joined by '/'
PathText(q) == IF Len(q) = 1 THEN q[1] ELSE q[1] \o <<"/">> \o q[2]

\* dirs.filter(d => d.includes(pattern))
Matching(dirs, pattern) ==
  SelectSeq(dirs, LAMBDA d : IncludesText(PathText(d), <<pattern>>))

\* a plausible slip: the layer rule is tried before the feature rule
StructureType_LayerFirst(dirs) ==
  LET has(pattern) == Matching(dirs, pattern) # <<>>
  IN IF (has("controllers") \/ has("handlers")) /\ (has("services") \/ has("repositories"))
     THEN "layer-based"
     ELSE IF has("features") \/ has("modules") THEN "feature-based"
     ELSE IF has("components") /\ ~has("services") THEN "flat"
     ELSE IF has("components") /\ has("services") THEN "hybrid"
     ELSE "unknown"

StructureType(dirs) ==
  LET has(pattern) == Matching(dirs, pattern) # <<>>
  IN IF has("features") \/ has("modules") THEN "feature-based"
     ELSE IF (has("controllers") \/ has("handlers")) /\ (has("services") \/ has("repositories"))
     THEN "layer-based"
     ELSE IF has("components") /\ ~has("services") THEN "flat"
     ELSE IF has("components") /\ has("services") THEN "hybrid"
     ELSE "unknown"

keyDirPatterns ==
  <<[pattern |-> "components", purpose |-> "UI Components"],
    [pattern |-> "features", purpose |-> "Feature modules"],
    [pattern |-> "services", purpose |-> "Business logic"],
    [pattern |-> "hooks", purpose |-> "Custom React hooks"],
    [pattern |-> "utils", purpose |-> "Utility functions"],
    [pattern |-> "lib", purpose |-> "Library code"],
    [pattern |-> "api", purpose |-> "API routes/handlers"],
    [pattern |-> "pages", purpose |-> "Page components (Pages Router)"],
    [pattern |-> "app", purpose |-> "App Router pages"],
    [pattern |-> "controllers", purpose |-> "Request handlers"],
    [pattern |-> "models", purpose |-> "Data models"],
    [pattern |-> "repositories", purpose |-> "Data access layer"],
    [pattern |-> "handlers", purpose |-> "HTTP handlers"],
    [pattern |-> "middleware", purpose |-> "Middleware functions"],
    [pattern |-> "types", purpose |-> "Type definitions"],
    [pattern |-> "config", purpose |-> "Configuration"],
    [pattern |-> "constants", purpose |-> "Constants and enums"]>>

RECURSIVE KeyDirectories(_, _)
\* the loop over keyDirPatterns[i..]
KeyDirectories(dirs, i) ==
  IF i > Len(keyDirPatterns) THEN <<>>
  ELSE LET matches == Matching(dirs, keyDirPatterns[i].pattern)
       IN (IF matches # <<>>
           THEN <<[path |-> matches[1], purpose |-> keyDirPatterns[i].purpose]>>
           ELSE <<>>) \o KeyDirectories(dirs, i + 1)

detectDirectoryStructure(tree, listed) ==
  [type |-> StructureType(listed),
   sourceDir |-> FirstDirectory(tree, sourceDirs, <<".">>),
   testDir |-> FirstDirectory(tree, testDirs, <<>>),
   keyDirectories |-> KeyDirectories(listed, 1)]

\* directories that may lie under the source directory: nine names and
\* two nested paths (features/components, utils/microservices)
SourceSubdirs ==
  {<<<<n>>>> : n \in {"components", "features", "modules", "services", "controllers",
                      "repositories", "handlers", "utils"}}
  \cup {<< <<"app", "s">> >>, << <<"features">>, <<"components">> >>,
        << <<"utils">>, <<"micro", "services">> >>}

\* the trees: up to n directories placed at cwd or under src/ or app/, and
\* possibly tests/ and components/ at cwd
StructureTrees(n) ==
  {(IF place = <<".">> THEN S
    ELSE {<<place>>} \cup {<<place>> \o q : q \in S}) \cup extra :
     S \in {T \in UNION {KSubsets(SourceSubdirs, k) : k \in 0..n} :
              \A q \in T : Len(q) = 2 => <<q[1]>> \in T},
     place \in {<<".">>, <<"src">>, <<"app">>},
     extra \in SUBSET {<< <<"tests">> >>, << <<"components">> >>}}

\* the orders in which the members of a set can be listed
Orders(S) ==
  {f \in [1..Cardinality(S) -> S] : \A i, j \in 1..Cardinality(S) : f[i] = f[j] => i = j}

InitStructure ==
  /\ pc = "ready"
  /\ \E tree \in StructureTrees(MaxListed) :
       \E listed \in Orders(Listing(tree, FirstDirectory(tree, sourceDirs, <<".">>))) :
         sdir = [tree |-> tree, listed |-> listed]
  /\ structure = Idle.structure
  /\ IdleBut("structure")

DetectDirectoryStructure ==
  /\ pc = "ready"
  /\ structure' = detectDirectoryStructure(sdir.tree, sdir.listed)
  /\ pc' = "done"
  /\ UNCHANGED sdir
  /\ KeepBut("structure")

NextStructure == DetectDirectoryStructure

SpecStructure == InitStructure /\ [][NextStructure]_vars

StructureDone == pc = "done" /\ structure # Idle.structure

\* a directory of the kind lies under the source directory, depth at most 2
KindPresent(kind) ==
  \E q \in Listing(sdir.tree, structure.sourceDir) : IncludesText(PathText(q), <<kind>>)

\* C18: the type is a function of the directory kinds present, by the first
\* matching rule: features or modules gives 'feature-based'; else (controllers
\* or handlers) and (services or repositories) gives 'layer-based'; else
\* components without services gives 'flat'; else components with services
\* gives 'hybrid'; else 'unknown'; the listing order plays no part.
C18_FirstMatchingRule ==
  StructureDone =>
    structure.type =
      IF KindPresent("features") \/ KindPresent("modules") THEN "feature-based"
      ELSE IF (KindPresent("controllers") \/ KindPresent("handlers"))
              /\ (KindPresent("services") \/ KindPresent("repositories"))
      THEN "layer-based"
      ELSE IF KindPresent("components") /\ ~KindPresent("services") THEN "flat"
      ELSE IF KindPresent("components") /\ KindPresent("services") THEN "hybrid"
      ELSE "unknown"

\* features beside controllers and services, listed last: 'feature-based'
C18_Witness ==
  /\ StructureDone
  /\ KindPresent("features") /\ KindPresent("controllers") /\ KindPresent("services")
  /\ sdir.listed[Len(sdir.listed)] = << <<"features">> >>
  /\ structure.type = "feature-based"

\* C19: one key directory at most per row of the table, the first listed
\* directory that matches the row's pattern, whatever the type; and every
\* recorded path is a directory under the scanned root, for every source
\* directory.
C19_KeyDirectoriesExist ==
  StructureDone =>
    /\ \A r \in 1..Len(keyDirPatterns) :
         LET entries == SelectSeq(structure.keyDirectories,
                                  LAMBDA e : e.purpose = keyDirPatterns[r].purpose)
             matches == Matching(sdir.listed, keyDirPatterns[r].pattern)
         IN /\ Len(entries) <= 1
            /\ Len(entries) = 1 <=> matches # <<>>
            /\ Len(entries) = 1 => entries[1].path = matches[1]
    /\ \A i \in 1..Len(structure.keyDirectories) :
         structure.keyDirectories[i].path \in sdir.tree

(***************************************************************************)
(* detectPackageManager on its own: every language, every set of lock and  *)
(* build files                                                             *)
(***************************************************************************)
Languages ==
  {"typescript", "javascript", "python", "go", "rust", "java", "ruby", "php", "unknown"}

LockFiles ==
  {"bun.lockb", "pnpm-lock.yaml", "yarn.lock", "package-lock.json", "poetry.lock",
   "pom.xml", "build.gradle"}

InitPackageManager ==
  /\ pc = "ready"
  /\ pmArgs \in [ctx : {[EmptyDir EXCEPT !.files = F] : F \in SUBSET LockFiles},
                 language : Languages]
  /\ packageManager = Idle.packageManager
  /\ IdleBut("packageManager")

DetectPackageManager ==
  /\ pc = "ready"
  /\ packageManager' = detectPackageManager(pmArgs.ctx, pmArgs.language)
  /\ pc' = "done"
  /\ UNCHANGED pmArgs
  /\ KeepBut("packageManager")

NextPackageManager == DetectPackageManager

SpecPackageManager == InitPackageManager /\ [][NextPackageManager]_vars

\* the manager of the first file of `files` that is present, else `default`
FirstPresent(files, managers, default) ==
  LET there == {i \in 1..Len(files) : files[i] \in pmArgs.ctx.files}
  IN IF there = {} THEN default
     ELSE managers[CHOOSE i \in there : \A j \in there : i <= j]

\* C20: the package manager is decided by the first matching check: for
\* typescript/javascript the first present of bun.lockb, pnpm-lock.yaml,
\* yarn.lock, package-lock.json (bun, pnpm, yarn, npm), npm when none is;
\* python: poetry iff poetry.lock, else pip; java: maven iff pom.xml, else
\* gradle; go, rust, ruby, php: go-modules, cargo, bundler, composer; and the
\* result is 'unknown' iff the language is.
C20_FirstLockFileWins ==
  (pc = "done" /\ packageManager # Idle.packageManager) =>
    LET l == pmArgs.language
    IN /\ l \in {"typescript", "javascript"} =>
            packageManager =
              FirstPresent(<<"bun.lockb", "pnpm-lock.yaml", "yarn.lock", "package-lock.json">>,
                           <<"bun", "pnpm", "yarn", "npm">>, "npm")
       /\ l = "python" => packageManager = FirstPresent(<<"poetry.lock">>, <<"poetry">>, "pip")
       /\ l = "java" => packageManager = FirstPresent(<<"pom.xml">>, <<"maven">>, "gradle")
       /\ l = "go" => packageManager = "go-modules"
       /\ l = "rust" => packageManager = "cargo"
       /\ l = "ruby" => packageManager = "bundler"
       /\ l = "php" => packageManager = "composer"
       /\ packageManager = "unknown" <=> l = "unknown"

\* pnpm-lock.yaml beside yarn.lock and package-lock.json: pnpm
C20_Witness ==
  /\ pc = "done"
  /\ packageManager = "pnpm"
  /\ pmArgs.language = "typescript"
  /\ {"pnpm-lock.yaml", "yarn.lock", "package-lock.json"} \subseteq pmArgs.ctx.files

(***************************************************************************)
(* The scenario of a typed project with one full-stack framework           *)
(***************************************************************************)
\* the dependency keys of the frameworks of the whitelist that the
\* package.json table knows
FullStackKeys == {"next", "@nestjs/core"}

\* a directory without workspace system that holds tsconfig.json and a
\* package.json with one dependency entry, on a full-stack framework, and
\* at most typescript itself as development dependency
TypedFullStackOnly ==
  /\ project.tops = <<>>
  /\ project.root.files = {"tsconfig.json", "package.json"}
  /\ project.root.pkg.ok
  /\ \E k \in FullStackKeys : DOMAIN project.root.pkg.dependencies = {k}
  /\ DOMAIN project.root.pkg.devDependencies \subseteq {"typescript"}

\* the framework name the table gives the dependency key of the scenario
ScenarioFramework ==
  IF "next" \in DOMAIN project.root.pkg.dependencies THEN "nextjs" ELSE "nestjs"

FourValues(r) == <<r.language, r.framework, r.testFramework, r.packageManager>>

\* C21 as claimed: in the scenario detectStack returns typescript, the
\* framework, test framework 'unknown' and package manager 'npm', and stacks
\* is one item with the same four values.
C21_TypedFullStackScenario ==
  (pc = "done" /\ TypedFullStackOnly) =>
    /\ ~stack.raised
    /\ FourValues(stack.val) = <<"typescript", ScenarioFramework, "unknown", "npm">>
    /\ Len(stack.val.stacks) = 1
    /\ FourValues(stack.val.stacks[1]) = FourValues(stack.val)

(***************************************************************************)
(* The transform command (src/src/cli.ts, runTransform).  The files of the *)
(* project directory are a function from paths <<directory, name>> to what *)
(* they hold: "original" (what was there before the run) or "generated".   *)
(* The prompt answers and what the agent generator suggests are inputs of  *)
(* the run.                                                                *)
(***************************************************************************)
\* bound: the number of agents suggested
MaxSuggestions == 2

claudeMdPaths == << <<".", "CLAUDE.md">>, <<".", "claude.md">>, <<".claude", "CLAUDE.md">> >>

\* docs.claudeMd: the first of the three paths that exists is parsed
HasClaudeMd(files) == \E i \in 1..Len(claudeMdPaths) : claudeMdPaths[i] \in DOMAIN files

\* docs.agentDirectory: the first agent directory that exists
AgentDirectory(files) ==
  LET there == {i \in 1..Len(agentDirs) : \E q \in DOMAIN files : q[1] = agentDirs[i]}
  IN IF there = {} THEN Undefined
     ELSE Str(agentDirs[CHOOSE i \in there : \A j \in there : i <= j])

\* fs.writeFile(path, generated content)
WriteFile(files, path) ==
  [q \in DOMAIN files \cup {path} |-> IF q = path THEN "generated" ELSE files[q]]

\* the agent file of suggestion i
AgentFileName(i) == <<"agent", i, ".md">>

RECURSIVE SaveAgents(_, _, _)
\* the loop writing <outputDir>/<agent.name>.md for the selected suggestions
SaveAgents(files, outputDir, selected) ==
  IF selected = <<>> THEN files
  ELSE SaveAgents(WriteFile(files, <<outputDir, AgentFileName(selected[1])>>), outputDir,
                  Tail(selected))

\* runTransform(options): the files of the project directory after the run
runTransform(files, o) ==
  LET prompting == o.interactive /\ ~o.force
      shouldGenerateClaudeMd ==
        IF ~o.includeClaudeMd /\ prompting THEN o.generateClaudeMd = "yes"
        ELSE o.includeClaudeMd
      step3 == IF ~HasClaudeMd(files) /\ shouldGenerateClaudeMd
               THEN WriteFile(files, <<".", "CLAUDE.md">>) ELSE files
      selected == IF prompting THEN o.selected.v ELSE [i \in 1..o.suggestions |-> i]
      outputDir == IF o.outputDir # Undefined THEN o.outputDir.v
                   ELSE IF AgentDirectory(step3) # Undefined THEN AgentDirectory(step3).v
                   ELSE ".agents"
  IN IF o.suggestions = 0 THEN step3
     ELSE IF prompting /\ (o.selected = Undefined \/ o.selected.v = <<>>) THEN step3
     ELSE IF o.dryRun THEN step3
     ELSE IF prompting /\ ~o.confirm THEN step3
     ELSE SaveAgents(step3, outputDir, selected)

\* the files a project directory may hold before the run
OriginalPaths ==
  {<<".", "CLAUDE.md">>, <<".", "claude.md">>, <<".agents", AgentFileName(1)>>,
   <<".claude/agents", AgentFileName(2)>>}

RECURSIVE Ascending(_)
\* the elements of a set of numbers in increasing order
Ascending(S) ==
  IF S = {} THEN <<>>
  ELSE LET m == CHOOSE k \in S : \A j \in S : k <= j IN <<m>> \o Ascending(S \ {m})

\* the options of the command line, the answers to the three prompts (none:
\* the prompt was cancelled) and the number of suggestions
TransformRuns(n) ==
  UNION {[dryRun : BOOLEAN, force : BOOLEAN, interactive : BOOLEAN,
          includeClaudeMd : BOOLEAN, outputDir : {Undefined, Str("out")},
          generateClaudeMd : {"yes", "no", "none"},
          selected : {Undefined} \cup {Arr(Ascending(S)) : S \in SUBSET (1..k)},
          confirm : BOOLEAN,
          suggestions : {k},
          before : {[q \in P |-> "original"] : P \in SUBSET OriginalPaths}] : k \in 0..n}

InitTransform ==
  /\ pc = "ready"
  /\ targs \in TransformRuns(MaxSuggestions)
  /\ cwdFiles = targs.before
  /\ IdleBut("transform")

RunTransform ==
  /\ pc = "ready"
  /\ cwdFiles' = runTransform(cwdFiles, targs)
  /\ pc' = "done"
  /\ UNCHANGED targs
  /\ KeepBut("transform")

NextTransform == RunTransform

SpecTransform == InitTransform /\ [][NextTransform]_vars

TransformDone == pc = "done" /\ targs # Idle.targs

\* C22 as claimed: with --dry-run the project directory is left as it was,
\* whatever the other options and the prompt answers: no file is created
\* and none is modified.
C22_DryRunWritesNothing ==
  (TransformDone /\ targs.dryRun) => cwdFiles = targs.before

(***************************************************************************)
(* The casing patterns of detectNamingConvention, one against the other    *)
(***************************************************************************)
\* the styles whose pattern matches a name
StylesMatching(name) == {c \in Styles : PatternTest(c, name)}

\* C23 as claimed: every base name of a sample matches at most one of the
\* five casing patterns (so the tally cannot depend on the order in which
\* the patterns are tried).
C23_PatternsMutuallyExclusive ==
  (pc = "done" /\ convention # Idle.convention) =>
    \A i \in 1..Len(samples) : Cardinality(StylesMatching(SampleNames[i])) <= 1

(***************************************************************************)
(* detectAllFrameworks on its own, on the languages detectAllLanguages     *)
(* finds in the same directory                                             *)
(***************************************************************************)
InitFrameworks ==
  /\ pc = "ready"
  /\ fargs \in {[ctx |-> d, languages |-> detectAllLanguages(d).val] :
                  d \in {e \in SingleDirs(MaxRootFiles, MaxDeps) :
                           ~detectAllLanguages(e).raised}}
  /\ frameworks = Idle.frameworks
  /\ IdleBut("frameworks")

DetectAllFrameworks ==
  /\ pc = "ready"
  /\ frameworks' = detectAllFrameworks(fargs.ctx, fargs.languages)
  /\ pc' = "done"
  /\ UNCHANGED fargs
  /\ KeepBut("frameworks")

NextFrameworks == DetectAllFrameworks

SpecFrameworks == InitFrameworks /\ [][NextFrameworks]_vars

\* the frameworks in the order of the checks
FrameworkOrder ==
  <<"nextjs", "react", "vue", "angular", "svelte", "nestjs", "express", "fastify",
    "gin", "echo", "fiber", "django", "fastapi", "flask", "rails", "actix", "axum">>

\* where each framework is looked for: the package.json key or the text
\* manifests and the substring, and the language it belongs to
FrameworkSign(f) ==
  CASE f = "nextjs" -> <<"js", "next">>
    [] f = "react" -> <<"js", "react">>
    [] f = "vue" -> <<"js", "vue">>
    [] f = "angular" -> <<"js", "@angular/core">>
    [] f = "svelte" -> <<"js", "svelte">>
    [] f = "nestjs" -> <<"js", "@nestjs/core">>
    [] f = "express" -> <<"js", "express">>
    [] f = "fastify" -> <<"js", "fastify">>
    [] f = "gin" -> <<"go", "github.com/gin-gonic/gin">>
    [] f = "echo" -> <<"go", "github.com/labstack/echo">>
    [] f = "fiber" -> <<"go", "github.com/gofiber/fiber">>
    [] f = "django" -> <<"python", "django">>
    [] f = "fastapi" -> <<"python", "fastapi">>
    [] f = "flask" -> <<"python", "flask">>
    [] f = "rails" -> <<"ruby", "rails">>
    [] f = "actix" -> <<"rust", "actix-web">>
    [] f = "axum" -> <<"rust", "axum">>

\* the languages of the list given to the detector
GivenLanguages == {fargs.languages[i].language : i \in 1..Len(fargs.languages)}

\* the readable package.json declares the key with a non-empty value, in the
\* map that wins the merge
Declares(key) ==
  LET pkg == fargs.ctx.pkg
  IN /\ "package.json" \in fargs.ctx.files /\ pkg.ok
     /\ IF key \in DOMAIN pkg.devDependencies THEN Truthy(pkg.devDependencies[key])
        ELSE key \in DOMAIN pkg.dependencies /\ Truthy(pkg.dependencies[key])

\* the framework's sign is present in a manifest of a detected language
FrameworkMatched(f) ==
  LET sign == FrameworkSign(f)
  IN IF sign[1] = "js"
     THEN /\ GivenLanguages \cap {"typescript", "javascript"} # {}
          /\ Declares(sign[2])
          /\ (f = "react" => ~Declares("next"))
     ELSE /\ sign[1] \in GivenLanguages
          /\ \E file \in (CASE sign[1] = "go" -> {"go.mod"}
                            [] sign[1] = "python" -> {"requirements.txt", "pyproject.toml"}
                            [] sign[1] = "ruby" -> {"Gemfile"}
                            [] sign[1] = "rust" -> {"Cargo.toml"}) :
               file \in fargs.ctx.files /\ sign[2] \in fargs.ctx.text[file]

FrameworksReturned == pc = "done" /\ fargs # Idle.fargs /\ ~frameworks.raised

\* C24: the list detectAllFrameworks returns holds one entry per matched
\* framework, in the order of the checks and without duplicates, each
\* tagged with a language of the detected list; react is never listed
\* beside nextjs; nothing matched gives the empty list, and no entry is
\* 'unknown'.
C24_OneEntryPerMatchedFramework ==
  FrameworksReturned =>
    LET fws == frameworks.val
        matched == SelectSeq(FrameworkOrder, FrameworkMatched)
    IN /\ [i \in 1..Len(fws) |-> fws[i].framework] = matched
       /\ \A i, j \in 1..Len(fws) : fws[i].framework = fws[j].framework => i = j
       /\ \A i \in 1..Len(fws) :
            /\ fws[i].language \in GivenLanguages
            /\ fws[i].framework # "unknown"
       /\ ~(\E i, j \in 1..Len(fws) :
              fws[i].framework = "react" /\ fws[j].framework = "nextjs")

\* package.json declares next and react: nextjs alone is returned
C24_Witness ==
  /\ FrameworksReturned
  /\ Declares("next") /\ Declares("react")
  /\ Len(frameworks.val) = 1
  /\ frameworks.val[1].framework = "nextjs"

(***************************************************************************)
(* scanSubdirectories on its own, on lists of patterns                     *)
(***************************************************************************)
\* the trees scanned: packages/ with a (a directory, a file, unreadable or
\* absent) and b in either order and a dot directory, and apps/web
ScanListings ==
  {x \o h :
     x \in {a \o b : a \in {<<>>} \cup {<<Kid("a", k, EmptyDir)>> :
                                         k \in {"dir", "file", "noaccess"}},
                     b \in {<<>>, <<Kid("b", "dir", EmptyDir)>>}}
           \cup {<<Kid("b", "dir", EmptyDir), Kid("a", "dir", EmptyDir)>>},
     h \in {<<>>, <<Kid(".cache", "dir", EmptyDir)>>}}

ScanTrees ==
  {Project(EmptyDir, Tops(pk, ap)) :
     pk \in ScanListings, ap \in {<<>>, <<Kid("web", "dir", EmptyDir)>>}}

\* packages/*, apps/*, libs/*, *, ./packages/*, packages/*/src, packages/a/*,
\* packages/a, libs
ScanPatterns ==
  {PackagesGlob, AppsGlob, LibsGlob, <<"*">>, <<".", "/", "packages", "/", "*">>,
   <<"packages", "/", "*", "/", "src">>, <<"packages", "/", "a", "/", "*">>,
   <<"packages", "/", "a">>, <<"libs">>}

InitScan ==
  /\ pc = "ready"
  /\ scanArgs \in [proj : ScanTrees,
                   patterns : {StrList(q) : q \in SeqsUpTo(ScanPatterns, MaxPatterns)}]
  /\ scanned = Idle.scanned
  /\ IdleBut("scan")

ScanSubdirectories ==
  /\ pc = "ready"
  /\ scanned' = scanSubdirectories(scanArgs.proj, scanArgs.patterns)
  /\ pc' = "done"
  /\ UNCHANGED scanArgs
  /\ KeepBut("scan")

NextScan == ScanSubdirectories

SpecScan == InitScan /\ [][NextScan]_vars

\* the part of a pattern before its first '*'
BeforeFirstStar(p) ==
  SubSeq(p, 1, (CHOOSE j \in 1..Len(p) : p[j] = "*" /\ \A k \in 1..(j - 1) : p[k] # "*") - 1)

\* the directory at a location of the scanned tree
IsDirectoryAt(segs) == Lookup(scanArgs.proj, segs).kind \in {"dir", "noaccess"}

\* the child directories of a location that do not start with '.', in the
\* order of the listing; none when the location cannot be listed
ChildDirectories(segs) ==
  LET node == Lookup(scanArgs.proj, segs)
      shown(e) == e.kind \in {"dir", "noaccess"} /\ ~StartsWithDot(e.name)
      kept == IF node.kind = "dir" THEN SelectSeq(node.entries, shown) ELSE <<>>
  IN [i \in 1..Len(kept) |-> segs \o <<kept[i].name>>]

\* what one pattern contributes according to the claim, as locations
Contribution(p) ==
  IF "*" \in {p[i] : i \in 1..Len(p)}
  THEN ChildDirectories(Segments(BeforeFirstStar(p)))
  ELSE IF IsDirectoryAt(Segments(p)) THEN <<Segments(p)>> ELSE <<>>

RECURSIVE Contributions(_)
Contributions(ps) ==
  IF ps = <<>> THEN <<>> ELSE Contribution(Head(ps).v) \o Contributions(Tail(ps))

ScanDone == pc = "done" /\ scanArgs # Idle.scanArgs

\* C25: scanSubdirectories returns, pattern after pattern, for a pattern with
\* a '*' the child directories of the part before the first '*' whose names
\* do not start with '.', and for another pattern the pattern itself iff it
\* is a directory; a base path that is missing or cannot be listed gives
\* nothing and the later patterns are still expanded.
C25_ScanExpandsEachPattern ==
  ScanDone =>
    /\ ~scanned.raised
    /\ [i \in 1..Len(scanned.val) |-> Segments(scanned.val[i])]
         = Contributions(scanArgs.patterns.v)
    /\ \A i \in 1..Len(scanArgs.patterns.v) :
         LET p == scanArgs.patterns.v[i].v
         IN ~HasStar(p) /\ IsDirectoryAt(Segments(p)) =>
              \E j \in 1..Len(scanned.val) : scanned.val[j] = p

\* libs/ is missing, packages/ holds a directory: the second pattern is
\* still expanded
C25_Witness ==
  /\ ScanDone
  /\ scanArgs.patterns = StrList(<<LibsGlob, PackagesGlob>>)
  /\ ~scanned.raised
  /\ scanned.val = << <<"packages", "/", "b">> >>
  /\ Lookup(scanArgs.proj, <<"packages", ".cache">>).kind = "dir"
  /\ Lookup(scanArgs.proj, <<"packages", "a">>).kind = "file"

(***************************************************************************)
(* Where an item of unknown language can stand                             *)
(***************************************************************************)
UnknownLanguageAt(i) == stack.val.stacks[i].language = "unknown"

\* the root or an expanded workspace directory gave an item
SomethingRecognised ==
  \/ RootResolves
  \/ \E i \in 1..Len(ExpandedDirs) : detectStackInDirectory(project, ExpandedDirs[i]) # <<>>

MonorepoDone == pc = "done" /\ mctx # Idle.mctx

\* C27: whenever detectMonorepo reports 'turborepo' its workspaces are
\* ['packages/*', 'apps/*']: the workspaces field of package.json never
\* reaches a turborepo result.
C27_TurborepoHasDefaultWorkspaces ==
  (MonorepoDone /\ monorepo.type = "turborepo") =>
    monorepo.workspaces = StrList(<<PackagesGlob, AppsGlob>>)

\* turbo.json beside a readable package.json whose workspaces field is the
\* empty string
C27_Witness ==
  /\ MonorepoDone
  /\ monorepo.type = "turborepo"
  /\ {"turbo.json", "package.json"} \subseteq mctx.files
  /\ mctx.pkg.ok
  /\ mctx.pkg.workspaces = Str(<<>>)

(***************************************************************************)
(* detectCommands (src/unnamed/part_001).  A command is a sequence of      *)
(* tokens; the commands of package.json scripts are                        *)
(* <<runner, " run ", script>>.                                            *)
(***************************************************************************)
\* bound: the number of scripts of a generated package.json
MaxScripts == 2

findScriptRunner(stack_) ==
  IF stack_.packageManager \in {"pnpm", "yarn", "bun"} THEN stack_.packageManager ELSE "npm"

NoCommands ==
  [dev |-> Undefined, build |-> Undefined, test |-> Undefined, lint |-> Undefined,
   format |-> Undefined, typecheck |-> Undefined]

\* pkg.scripts.<key>
Script(scripts, key) == IF key \in DOMAIN scripts.v THEN scripts.v[key] ELSE Undefined

RunScript(stack_, script) == Str(<<findScriptRunner(stack_), " run ", script>>)

\* the package.json branch: file [state, scripts], state "missing" (readFile
\* throws), "malformed" (JSON.parse throws), "null" (pkg.scripts throws) or
\* "object"
JsCommands(file, stack_) ==
  LET sc == file.scripts
      has(key) == Truthy(Script(sc, key))
      set(cond, script) == IF cond THEN RunScript(stack_, script) ELSE Undefined
  IN IF file.state # "object"
     THEN [NoCommands EXCEPT !.dev = Str(<<"npm", " run ", "dev">>),
                             !.build = Str(<<"npm", " run ", "build">>),
                             !.test = Str(<<"npm", " ", "test">>)]
     ELSE IF ~Truthy(sc) THEN NoCommands
     ELSE [dev |-> set(has("dev") \/ has("start") \/ has("serve"), "dev"),
           build |-> set(has("build"), "build"),
           test |-> set(has("test"), "test"),
           lint |-> set(has("lint"), "lint"),
           format |-> set(has("format"), "format"),
           typecheck |-> set(has("typecheck") \/ has("type-check"), "typecheck")]

\* the Makefile branch: makefile [state, targets], the targets being the
\* substrings "run:", "build:", ... the file contains
GoCommands(makefile) ==
  LET make(target, default) ==
        IF makefile.state = "read" /\ target \in makefile.targets
        THEN Str(<<"make", " ", target>>) ELSE default
  IN [NoCommands EXCEPT !.dev = make("run", Undefined),
                        !.build = make("build", Str(<<"go build ./...">>)),
                        !.test = make("test", Str(<<"go test ./...">>)),
                        !.lint = make("lint", Str(<<"golangci-lint run">>))]

PythonCommands(stack_) ==
  [NoCommands EXCEPT
     !.test = Str(<<"pytest">>), !.lint = Str(<<"ruff check .">>),
     !.format = Str(<<"ruff format .">>),
     !.dev = IF stack_.framework = "django" THEN Str(<<"python manage.py runserver">>)
             ELSE IF stack_.framework = "fastapi" THEN Str(<<"uvicorn main:app --reload">>)
             ELSE IF stack_.framework = "flask" THEN Str(<<"flask run">>)
             ELSE Undefined]

detectCommands(cwd, stack_) ==
  IF stack_.language \in {"typescript", "javascript"} THEN JsCommands(cwd.pkgFile, stack_)
  ELSE IF stack_.language = "go" THEN GoCommands(cwd.makefile)
  ELSE IF stack_.language = "python" THEN PythonCommands(stack_)
  ELSE IF stack_.language = "ruby" /\ stack_.framework = "rails"
  THEN [NoCommands EXCEPT !.dev = Str(<<"rails server">>), !.test = Str(<<"rails test">>),
                          !.lint = Str(<<"rubocop">>)]
  ELSE IF stack_.language = "rust"
  THEN [NoCommands EXCEPT !.build = Str(<<"cargo build">>), !.test = Str(<<"cargo test">>),
                          !.lint = Str(<<"cargo clippy">>), !.dev = Str(<<"cargo run">>)]
  ELSE NoCommands

ScriptKeys ==
  {"dev", "start", "serve", "build", "test", "lint", "format", "typecheck", "type-check"}

\* package.json files: missing, unparseable, null, without scripts, or with
\* at most n scripts, a script being a command line or the empty string
PkgFiles(n) ==
  {[state |-> st, scripts |-> Undefined] : st \in {"missing", "malformed", "null", "object"}}
  \cup {[state |-> "object", scripts |-> [t |-> "object", v |-> a]] :
          a \in UNION {[K -> {Str(<<"tsc">>), Str(<<>>)}] : K \in KSubsets(ScriptKeys, n)}}

Makefiles ==
  {[state |-> "missing", targets |-> {}]}
  \cup {[state |-> "read", targets |-> T] : T \in SUBSET {"run", "build", "test", "lint"}}

\* the directory and the stack detectCommands is given
CommandRuns(n) ==
  [cwd : [pkgFile : PkgFiles(n), makefile : {[state |-> "missing", targets |-> {}]}],
   stack : [language : {"typescript", "javascript"}, framework : {"unknown"},
            packageManager : {"pnpm", "yarn", "bun", "npm", "unknown"}]]
  \cup [cwd : [pkgFile : {[state |-> "missing", scripts |-> Undefined]}, makefile : Makefiles],
        stack : [language : {"go", "python", "ruby", "rust", "unknown"},
                 framework : {"django", "fastapi", "flask", "rails", "unknown"},
                 packageManager : {"unknown"}]]

InitCommands ==
  /\ pc = "ready"
  /\ cmdArgs \in CommandRuns(MaxScripts)
  /\ commands = Idle.commands
  /\ IdleBut("commands")

DetectCommands ==
  /\ pc = "ready"
  /\ commands' = detectCommands(cmdArgs.cwd, cmdArgs.stack)
  /\ pc' = "done"
  /\ UNCHANGED cmdArgs
  /\ KeepBut("commands")

NextCommands == DetectCommands

SpecCommands == InitCommands /\ [][NextCommands]_vars

CommandKinds == {"dev", "build", "test", "lint", "format", "typecheck"}

\* the scripts package.json defines
DefinedScripts ==
  IF cmdArgs.cwd.pkgFile.scripts = Undefined THEN {}
  ELSE DOMAIN cmdArgs.cwd.pkgFile.scripts.v

\* the runner the claim names
ClaimedRunner ==
  IF cmdArgs.stack.packageManager \in {"pnpm", "yarn", "bun"}
  THEN cmdArgs.stack.packageManager ELSE "npm"

\* C28 as claimed: for a typescript/javascript project with a readable
\* package.json every command returned is '<runner> run <script>' with
\* <script> a key of package.json's scripts and <runner> pnpm, yarn or bun
\* when that is the package manager and npm otherwise.
C28_CommandsRunDefinedScripts ==
  (/\ pc = "done" /\ cmdArgs # Idle.cmdArgs
   /\ cmdArgs.stack.language \in {"typescript", "javascript"}
   /\ cmdArgs.cwd.pkgFile.state = "object") =>
    \A k \in CommandKinds :
      commands[k] # Undefined =>
        \E script \in DefinedScripts : commands[k] = Str(<<ClaimedRunner, " run ", script>>)

(***************************************************************************)
(* Category headings and the custom sections                               *)
(***************************************************************************)
\* C29 as claimed: the text of a level-2 heading that is an alias of one of
\* the five categories is not a key of customSections.
C29_AliasesAreNotCustomSections ==
  ParsedDone =>
    \A i \in 1..Len(claudeMd) :
      (Level2Text(claudeMd[i]) # <<>> /\ IsCategoryAlias(Level2Text(claudeMd[i]))) =>
        Level2Text(claudeMd[i]) \notin DOMAIN parsed.customSections

(***************************************************************************)
(* The single-stack detector (src/src/detectors/stack.ts) beside the       *)
(* multi-stack one.  Its detectTestFramework and detectPackageManager are  *)
(* the text of those of types.ts, so the same operators stand for them.    *)
(***************************************************************************)
\* detectLanguage: the first marker found decides; package.json comes last
detectLanguage(ctx) ==
  IF HasFile(ctx, "tsconfig.json")
  THEN (IF LanguagesThrows(ctx) THEN Raised ELSE Ok("typescript"))
  ELSE IF HasFile(ctx, "go.mod") THEN Ok("go")
  ELSE IF HasFile(ctx, "pyproject.toml") \/ HasFile(ctx, "requirements.txt")
            \/ HasFile(ctx, "setup.py")
  THEN Ok("python")
  ELSE IF HasFile(ctx, "Cargo.toml") THEN Ok("rust")
  ELSE IF HasFile(ctx, "Gemfile") THEN Ok("ruby")
  ELSE IF HasFile(ctx, "pom.xml") \/ HasFile(ctx, "build.gradle")
            \/ HasFile(ctx, "build.gradle.kts")
  THEN Ok("java")
  ELSE IF HasFile(ctx, "composer.json") THEN Ok("php")
  ELSE IF HasFile(ctx, "package.json") THEN Ok("javascript")
  ELSE Ok("unknown")

\* detectFramework: the first check that matches returns; .replace is called
\* on the value of that dependency only (not on react beside remix)
detectFramework(ctx, language) ==
  LET deps == MergedDeps(ReadJsonPkg(ctx))
      hits == {i \in 1..Len(JsFrameworkTable) : JsRowMatches(deps, i)}
      first == CHOOSE i \in hits : \A j \in hits : i <= j
  IN IF language \in {"typescript", "javascript"}
     THEN IF hits = {} THEN Ok("unknown")
          ELSE IF /\ deps[JsFrameworkTable[first][1]].t # "string"
                  /\ ~(JsFrameworkTable[first][1] = "react"
                       /\ Truthy(deps["@remix-run/react"]))
          THEN Raised
          ELSE Ok(JsFrameworkTable[first][2])
     ELSE IF language = "go"
     THEN IF Includes(ctx, "go.mod", "github.com/gin-gonic/gin") THEN Ok("gin")
          ELSE IF Includes(ctx, "go.mod", "github.com/labstack/echo") THEN Ok("echo")
          ELSE IF Includes(ctx, "go.mod", "github.com/gofiber/fiber") THEN Ok("fiber")
          ELSE Ok("unknown")
     ELSE IF language = "python"
     THEN IF PythonContentIncludes(ctx, "django") THEN Ok("django")
          ELSE IF PythonContentIncludes(ctx, "fastapi") THEN Ok("fastapi")
          ELSE IF PythonContentIncludes(ctx, "flask") THEN Ok("flask")
          ELSE Ok("unknown")
     ELSE IF language = "ruby"
     THEN (IF Includes(ctx, "Gemfile", "rails") THEN Ok("rails") ELSE Ok("unknown"))
     ELSE IF language = "rust"
     THEN IF Includes(ctx, "Cargo.toml", "actix-web") THEN Ok("actix")
          ELSE IF Includes(ctx, "Cargo.toml", "axum") THEN Ok("axum")
          ELSE Ok("unknown")
     ELSE Ok("unknown")

\* detectStack of stack.ts: the four fields compared here
detectSingleStack(proj) ==
  LET ctx == proj.root
      language == detectLanguage(ctx)
      framework == detectFramework(ctx, language.val)
  IN IF language.raised THEN Raised
     ELSE IF framework.raised THEN Raised
     ELSE Ok([language |-> language.val, framework |-> framework.val,
              testFramework |-> detectTestFramework(ctx, language.val),
              packageManager |-> detectPackageManager(ctx, language.val)])

InitCompat ==
  /\ pc = "ready"
  /\ cproject \in SingleProjects(MaxRootFiles, MaxDeps)
  /\ compat = [single |-> Raised, multi |-> Raised]
  /\ IdleBut("compat")

DetectSingleStack ==
  /\ pc = "ready"
  /\ compat' = [compat EXCEPT !.single = detectSingleStack(cproject)]
  /\ pc' = "single"
  /\ UNCHANGED cproject
  /\ KeepBut("compat")

DetectMultiStack ==
  /\ pc = "single"
  /\ compat' = [compat EXCEPT !.multi = detectStack(cproject)]
  /\ pc' = "done"
  /\ UNCHANGED cproject
  /\ KeepBut("compat")

NextCompat == DetectSingleStack \/ DetectMultiStack

SpecCompat == InitCompat /\ [][NextCompat]_vars

\* C30 as claimed: on a directory without workspace system the primary
\* language, framework, testFramework and packageManager of the multi-stack
\* detectStack are those the single-stack detectStack returns.
C30_PrimaryFieldsAsSingleStack ==
  (/\ pc = "done" /\ cproject # Idle.cproject
   /\ detectMonorepo(cproject.root) = NoMonorepo
   /\ ~compat.single.raised /\ ~compat.multi.raised) =>
    FourValues(compat.multi.val) = FourValues(compat.single.val)

====
